---- MODULE Spec2Model ----
(***************************************************************************)
(* Alarm subsystem of the timetable PWA: the durable alarm store           *)
(* (IndexedDB 'alarms'), the foreground bridge (services/alarmService.ts   *)
(* and the ScheduleView alarm effect) and the background dispatcher (the   *)
(* service worker: checkAlarms, startRingingAlarm, stopRingingAlarm and    *)
(* the notificationclick handler).                                         *)
(*                                                                         *)
(* Time is wall-clock milliseconds.  A Date is its epoch-millisecond       *)
(* value; an ISO-8601 string (Date.toISOString) is the pair                *)
(* <<UTC day number, millisecond of that day>>, compared field by field as *)
(* the fixed-width string is compared character by character.              *)
(***************************************************************************)
EXTENDS Integers, Sequences, FiniteSets, TLC

(* ------------------------------ bounds --------------------------------- *)

\* Granularity of the model's clock: every Tick advances now by Step ms.
Step == 30000
\* Number of Ticks a behaviour of the dispatcher specification may take.
MaxTicks == 26
\* Longest message queue (page -> worker, worker -> page) the model keeps.
MaxChan == 2
\* Taps on alerts, in the specification of the dispatcher.
MaxClicks == 3
\* User actions (on the page and on alerts), and Ticks, in the
\* specification of the whole application.
MaxUser == 1
MaxTicksApp == 2
\* Ticks, taps on alerts and stops of the worker, in the specification of
\* the worker that the browser stops and starts.
MaxTicksRestart == 8
MaxClicksRestart == 1
MaxStops == 1
\* Ticks of the clock, and requests that find the store unavailable, in a
\* session with store failures.
MaxTicksFail == 1
MaxFails == 1

(* ------------------------- program constants --------------------------- *)

DayMs == 24 * 60 * 60 * 1000
HourMs == 60 * 60 * 1000
MinuteMs == 60 * 1000

\* checkAlarms: upper bound of the index query, Date.now() + 60000.
QueryBufferMs == 60000
\* checkAlarms: timeDiff >= -60000
WindowBeforeMs == 60000
\* checkAlarms: timeDiff < 120000
WindowAfterMs == 120000
\* checkAlarms: timeSinceLastNotification > 30000
RenotifyMs == 30000
\* startAlarmChecking: setInterval(..., 60000)
ScanPeriodMs == 60000
\* notificationclick snooze: 5 minutes
SnoozeMinutes == 5
\* calculateAlarmTime: 10 minutes before class
LeadMinutes == 10
\* scheduleAlarm: in-memory timer only when timeUntilAlarm > 1000
MinTimerMs == 1000

(* --------------------------- dates and ids ----------------------------- *)

\* The number that is not a number, and the time value of an Invalid Date.
NaN == -1
InvalidDate == NaN

\* Date.prototype.toISOString: "YYYY-MM-DDTHH:mm:ss.sssZ" of the UTC instant.
toISOString(t) == <<t \div DayMs, t % DayMs>>

\* Date.prototype.toISOString throws a RangeError for an Invalid Date.
RangeError(t) == t = InvalidDate

\* new Date(isoString)
DateFromISO(iso) == iso[1] * DayMs + iso[2]

\* Order of two ISO strings as IndexedDB keys (string comparison).
IsoLeq(a, b) == a[1] < b[1] \/ (a[1] = b[1] /\ a[2] <= b[2])

\* Local midnight of local calendar day d on a device whose zone is tz ms
\* east of UTC (new Date(y, m, d), or setHours(0, 0, 0, 0)).
LocalMidnight(d, tz) == d * DayMs - tz

\* A field of a string split at ':' that is empty, or spells no number; any
\* other field is the number it spells.
Blank == -2
NotNumeric == -3

\* Number(field): 0 for the empty string, NaN for text that is no number.
Number(f) == IF f = Blank THEN 0 ELSE IF f = NotNumeric THEN NaN ELSE f

\* parseTimeString: "HH:MM" split at ':' and mapped to numbers, then
\* setHours(hours, minutes, 0, 0) on a copy of date (local time).
\* A slot time is the sequence of its fields: "HH:MM" is the pair
\* <<HH, MM>>.  A field that is absent is undefined and makes setHours'
\* argument NaN, like a field that spells no number: the Date is invalid.
\* Fields out of range carry over (MakeTime).
parseTimeString(timeStr, date, tz) ==
    LET midnight == ((date + tz) \div DayMs) * DayMs - tz
        hours == IF Len(timeStr) >= 1 THEN Number(timeStr[1]) ELSE NaN
        minutes == IF Len(timeStr) >= 2 THEN Number(timeStr[2]) ELSE NaN
    IN  IF hours = NaN \/ minutes = NaN THEN InvalidDate
        ELSE midnight + hours * HourMs + minutes * MinuteMs

\* Date.prototype.getMinutes: the minute field of the local time.
getMinutes(t, zone) == ((t + zone) % HourMs) \div MinuteMs

\* Date.prototype.setMinutes(m): the local time with its minute field
\* replaced by m, day, hour, seconds and milliseconds kept; a field out of
\* 0..59 carries into the hour (MakeTime, MakeDate).
setMinutes(t, m, zone) ==
    LET local == t + zone
    IN  (local \div HourMs) * HourMs + m * MinuteMs + (local % MinuteMs)
        - zone

\* A subtraction that stops at the full hour instead of borrowing from it.
calculateAlarmTimeNoBorrow(classTime, zone) ==
    LET m == getMinutes(classTime, zone) - LeadMinutes
    IN  setMinutes(classTime, IF m < 0 THEN 0 ELSE m, zone)

\* calculateAlarmTime: setMinutes(getMinutes() - 10); an Invalid Date stays
\* invalid (its getMinutes() is NaN).
calculateAlarmTime(classTime, zone) ==
    IF classTime = InvalidDate THEN InvalidDate
    ELSE setMinutes(classTime, getMinutes(classTime, zone) - LeadMinutes,
                    zone)

\* generateAlarmId: `${date.toISOString().split('T')[0]}-${time}-${subject}`
generateAlarmId(date, time, subject) == <<toISOString(date)[1], time, subject>>

(* ----------------------------- the store ------------------------------- *)

\* The object store is a set of records; keyPath 'id'.
StoreIds(s) == {r.id : r \in s}

\* A put that inserts without replacing: what an upsert rules out.
PutKeepsOld(s, r) == s \cup {r}

\* A clear that removes nothing: what a reset rules out.
ClearKeepsAll(s) == s

\* IDBObjectStore.clear
Clear(s) == {}

\* IDBObjectStore.put: insert, replacing the record with the same key.
Put(s, r) == {x \in s : x.id # r.id} \cup {r}

\* A delete that removes nothing.
DeleteKeeps(s, id) == s

\* IDBObjectStore.delete: no-op when the key is absent.
Delete(s, id) == {x \in s : x.id # id}

\* IDBObjectStore.get
Get(s, id) == {x \in s : x.id = id}

\* index('alarmTime').getAll(IDBKeyRange.upperBound(bound))
IndexUpperBound(s, bound) == {x \in s : IsoLeq(x.alarmTime, bound)}

(* ------------------------------- state --------------------------------- *)

VARIABLES
    now,                  \* Date.now()
    store,                \* the 'alarms' object store
    \* ---- foreground page (ScheduleView, alarmService, App)
    tz,                   \* the device's zone, ms east of UTC
    permission,           \* Notification.permission
    masterAlarmEnabled,   \* ScheduleView state
    enabledAlarms,        \* ScheduleView state: individually enabled ids
    currentDate,          \* ScheduleView state: the displayed day (a Date)
    activeAlarms,         \* alarmService: ids with an in-memory timeout
    fgQ,                  \* the page's store operations, in request order
    toSw,                 \* messages posted to the service worker
    activeAlarmAudio,     \* App: id -> the oscillators sounding for it
                          \* (tones) and whether the Map holds one (held)
    currentView,          \* App's view: "home" (section list) or
                          \* "schedule" (ScheduleView mounted)
    \* ---- service worker (dispatcher)
    clientConnected,      \* clients.matchAll() finds the page
    activeRingingAlarms,  \* Map alarmId -> ringing state
    notifications,        \* visible alerts: tag -> number of alerts
    snoozeConfirmation,   \* the 'snooze-confirmation' alert is visible
    notifQ,               \* getNotifications().then(...) callbacks pending
    toClient,             \* messages posted to the page
    scanPc,               \* "idle" | "read": index read done, onsuccess due
    scanSnap,             \* result of the index read
    timerDue,             \* next firing of the 60 s interval
    swQ,                  \* the worker's store requests, in request order:
                          \* scans (checkAlarms) and notificationclick
                          \* handlers awaiting initDB()
    worker,               \* the worker process: alive or stopped by the
                          \* browser; and, as history, when it started,
                          \* how often it was stopped, what was ringing
                          \* then, and what asked for the scan in progress
    \* ---- history (observation only)
    ticks,                \* Ticks taken
    snoozed,              \* id -> time of its snooze, while nothing
                          \* else has written the record since
    recon,                \* the progress of the current alarm-effect run
    userSteps,            \* user actions on the page taken
    handled,              \* id -> what the dispatcher's click handlers
                          \* did to the record and whether the page has
                          \* put it again since its dismiss
    scanOut,              \* what the last step did, when it was a scan
    lastOp                \* what the last step completed

fgVars == <<tz, permission, masterAlarmEnabled, enabledAlarms, currentDate,
            activeAlarms, fgQ, currentView>>
appVars == <<activeAlarmAudio>>
swVars == <<activeRingingAlarms, notifications, snoozeConfirmation, notifQ,
            scanPc, scanSnap, timerDue, swQ, worker>>
vars == <<now, store, fgVars, toSw, appVars, clientConnected, swVars,
          toClient, ticks, snoozed, recon, userSteps, handled, scanOut,
          lastOp>>

(* ------------------------------ helpers -------------------------------- *)

\* Map.set / Map.delete on a function with a finite domain.
MapSet(f, k, v) == [x \in DOMAIN f \cup {k} |-> IF x = k THEN v ELSE f[x]]
MapDel(f, k) == [x \in DOMAIN f \ {k} |-> f[x]]
EmptyMap == [x \in {} |-> 0]

\* History of the alarm effect's current run: "running" from its clear to
\* its last put, clean while no other writer has written the store in
\* between; want is what it is to leave, prev what the last completed run
\* was to leave, runs how many completed runs in a row had that want;
\* cancelled are the ids the page has deleted (cancelAlarm, cancelAllAlarms)
\* and not put again since.
NoRecon == [phase |-> "none", clean |-> TRUE, want |-> {}, prev |-> {},
            runs |-> 0, cancelled |-> {}, unsaved |-> {}, fails |-> 0]
\* History of the dispatcher's click handlers for an id.
Handled(h, id) == IF id \in DOMAIN h THEN h[id]
                  ELSE [snoozeAt |-> -1, dismissed |-> FALSE,
                        reinserted |-> FALSE]
OtherWrite(r) == IF r.phase = "running" THEN [r EXCEPT !.clean = FALSE]
                 ELSE r

NoScan == [valid |-> FALSE, at |-> 0, src |-> "none", before |-> {},
           started |-> {}, shown |-> {}, posted |-> {}]
NoOp == [op |-> "none"]

\* The number of visible alerts that carry tag.
Count(n, tag) == IF tag \in DOMAIN n THEN n[tag] ELSE 0

\* clients.matchAll().then(list => list.forEach(c => c.postMessage(m)))
Broadcast(tc, m) == IF clientConnected THEN Append(tc, m) ELSE tc

(* ---------------------- dispatcher: ring and stop ---------------------- *)

\* The dispatcher's working state while one event handler runs:
\* ring (activeRingingAlarms), nq (notifQ), tc (toClient), n (the alerts
\* on screen as the handler runs) and what the handler did (started,
\* shown, posted: ids).  A getNotifications request carries seen, the
\* number of alerts with its tag on screen when it was made.

\* startRingingAlarm(alarmId, alarm, isNew) at time t.
startRingingAlarm(d, alarmId, alarm, isNew, t) ==
    LET nq1 == Append(d.nq, [op |-> "reshow", tag |-> alarm.id,
                             seen |-> Count(d.n, alarm.id)])
    IN  IF isNew \/ alarmId \notin DOMAIN d.ring
        THEN [d EXCEPT
                !.nq = nq1,
                !.ring = MapSet(d.ring, alarmId,
                                [alarm |-> alarm, startTime |-> t,
                                 snoozeCount |-> 0,
                                 lastNotificationTime |-> t]),
                !.tc = Broadcast(d.tc, [type |-> "ALARM_RINGING",
                                        alarmId |-> alarmId]),
                !.started = d.started \cup {alarmId},
                !.shown = d.shown \cup {alarmId},
                !.posted = d.posted \cup {alarmId}]
        ELSE [d EXCEPT
                !.nq = nq1,
                !.ring = [d.ring EXCEPT ![alarmId].lastNotificationTime = t],
                !.shown = d.shown \cup {alarmId}]

\* stopRingingAlarm(alarmId)
stopRingingAlarm(d, alarmId) ==
    [d EXCEPT
        !.ring = MapDel(d.ring, alarmId),
        !.nq = Append(d.nq, [op |-> "close", tag |-> alarmId,
                             seen |-> Count(d.n, alarmId)]),
        !.tc = Broadcast(d.tc, [type |-> "ALARM_STOPPED",
                                alarmId |-> alarmId])]

\* The dispatcher's state as a handler finds it.
Dispatcher ==
    [ring |-> activeRingingAlarms, nq |-> notifQ, tc |-> toClient,
     n |-> notifications, started |-> {}, shown |-> {}, posted |-> {}]

(* -------------------------- dispatcher: scan --------------------------- *)

\* checkAlarms: timeDiff >= -60000 && timeDiff < 120000
\* A window that opens only at the fire time.
InWindowFromFireTime(timeDiff) == timeDiff >= 0 /\ timeDiff < WindowAfterMs

\* A window shorter than the period of the scans.
InWindowShort(timeDiff) == timeDiff >= 0 /\ timeDiff < ScanPeriodMs \div 2

\* A loop body that re-shows the alert from 30 seconds on.
CheckOneReshowsAtLimit(d, alarm, t) ==
    LET timeDiff == t - DateFromISO(alarm.alarmTime)
        isNew == alarm.id \notin DOMAIN d.ring
    IN  IF ~alarm.enabled THEN d
        ELSE IF ~(timeDiff >= -WindowBeforeMs /\ timeDiff < WindowAfterMs)
        THEN d
        ELSE IF isNew THEN startRingingAlarm(d, alarm.id, alarm, TRUE, t)
        ELSE
            LET ringingAlarm == d.ring[alarm.id]
                d1 == IF t - ringingAlarm.lastNotificationTime >= RenotifyMs
                      THEN startRingingAlarm(d, alarm.id, alarm, FALSE, t)
                      ELSE d
            IN  [d1 EXCEPT
                    !.tc = Broadcast(d1.tc, [type |-> "ALARM_RINGING",
                                             alarmId |-> alarm.id]),
                    !.posted = d1.posted \cup {alarm.id}]

\* A loop body without 'if (!alarm.enabled) continue'.
CheckOneAnyRecord(d, alarm, t) ==
    LET timeDiff == t - DateFromISO(alarm.alarmTime)
        isNew == alarm.id \notin DOMAIN d.ring
    IN  IF ~(timeDiff >= -WindowBeforeMs /\ timeDiff < WindowAfterMs) THEN d
        ELSE IF isNew
        THEN startRingingAlarm(d, alarm.id, alarm, TRUE, t)
        ELSE [d EXCEPT
                !.tc = Broadcast(d.tc, [type |-> "ALARM_RINGING",
                                        alarmId |-> alarm.id]),
                !.posted = d.posted \cup {alarm.id}]

\* A window that never closes.
InWindowNeverCloses(timeDiff) == timeDiff >= -WindowBeforeMs

InWindow(timeDiff) == timeDiff >= -WindowBeforeMs /\ timeDiff < WindowAfterMs

\* An index bound without the minute of buffer.
ScanUpperBoundNow(t) == toISOString(t)

\* checkAlarms: upperBound = new Date(Date.now() + 60000).toISOString()
ScanUpperBound(t) == toISOString(t + QueryBufferMs)

\* checkAlarms, the body of the loop for one alarm of the result.
CheckOne(d, alarm, t) ==
    LET timeDiff == t - DateFromISO(alarm.alarmTime)
        isNew == alarm.id \notin DOMAIN d.ring
    IN  IF ~alarm.enabled THEN d
        ELSE IF ~InWindow(timeDiff) THEN d
        ELSE IF isNew THEN startRingingAlarm(d, alarm.id, alarm, TRUE, t)
        ELSE
            LET ringingAlarm == d.ring[alarm.id]
                d1 == IF t - ringingAlarm.lastNotificationTime > RenotifyMs
                      THEN startRingingAlarm(d, alarm.id, alarm, FALSE, t)
                      ELSE d
            IN  [d1 EXCEPT
                    !.tc = Broadcast(d1.tc, [type |-> "ALARM_RINGING",
                                             alarmId |-> alarm.id]),
                    !.posted = d1.posted \cup {alarm.id}]

\* The first record of a result of the alarmTime index (key order).
FirstByAlarmTime(alarms) ==
    CHOOSE a \in alarms : \A b \in alarms : IsoLeq(a.alarmTime, b.alarmTime)

\* checkAlarms: for (const alarm of alarms) { ... }
RECURSIVE CheckAll(_, _, _)
CheckAll(d, alarms, t) ==
    IF alarms = {} THEN d
    ELSE LET a == FirstByAlarmTime(alarms)
         IN  CheckAll(CheckOne(d, a, t), alarms \ {a}, t)

\* No step of a handler is pending anywhere: every asynchronous callback
\* completes well within one Step of the clock.
Quiescent ==
    /\ notifQ = <<>> /\ swQ = <<>> /\ fgQ = <<>>
    /\ toSw = <<>> /\ toClient = <<>>
    /\ scanPc = "idle"

\* A read-write transaction starts only when no read-only transaction on
\* the store is live (the scan's, between its read and its onsuccess).
CanWrite == scanPc = "idle"

Quiet == scanOut' = NoScan /\ lastOp' = NoOp

\* The times at which a timer is due: the worker's interval and the
\* page's timeouts.
TimersDue ==
    (IF worker.alive THEN {timerDue} ELSE {})
        \cup {activeAlarms[id] : id \in DOMAIN activeAlarms}

\* The least element of a non-empty set of times.
Earliest(S) == CHOOSE t \in S : \A u \in S : t <= u

\* The clock advances by a Step, or to the next time a timer is due when
\* that is sooner: no timer is late.
Tick(limit) ==
    /\ ticks < limit
    /\ Quiescent
    /\ \A t \in TimersDue : now < t
    /\ now' = Earliest({now + Step} \cup TimersDue)
    /\ ticks' = ticks + 1
    /\ Quiet
    /\ UNCHANGED <<store, fgVars, toSw, appVars, clientConnected, swVars,
                   toClient, snoozed, recon, userSteps, handled>>

\* startAlarmChecking: setInterval(() => checkAlarms(), 60000)
TimerFire ==
    /\ worker.alive
    /\ now >= timerDue
    /\ timerDue' = timerDue + ScanPeriodMs
    /\ swQ' = Append(swQ, [action |-> "scan", src |-> "timer"])
    /\ Quiet
    /\ UNCHANGED <<now, store, fgVars, toSw, appVars, clientConnected,
                   activeRingingAlarms, notifications, snoozeConfirmation,
                   notifQ, scanPc, scanSnap, toClient, ticks, snoozed, recon,
                   userSteps, handled,
                   worker>>

\* The worker's 'message' listener: ALARM_UPDATED and CHECK_ALARMS call
\* checkAlarms(); every other message is ignored.
SwMessage ==
    /\ worker.alive
    /\ toSw # <<>>
    /\ toSw' = Tail(toSw)
    /\ swQ' = IF Head(toSw).type \in {"ALARM_UPDATED", "CHECK_ALARMS"}
              THEN Append(swQ, [action |-> "scan", src |-> "message"])
              ELSE swQ
    /\ Quiet
    /\ UNCHANGED <<now, store, fgVars, appVars, clientConnected,
                   activeRingingAlarms, notifications, snoozeConfirmation,
                   notifQ, scanPc, scanSnap, timerDue, toClient, ticks,
                   snoozed, recon, userSteps, handled,
                   worker>>

\* checkAlarms up to the index request: initDB, a read-only transaction,
\* index.getAll(upperBound(now + 60000)).
ScanRead ==
    /\ swQ # <<>>
    /\ Head(swQ).action = "scan"
    /\ scanPc = "idle"
    /\ swQ' = Tail(swQ)
    /\ scanPc' = "read"
    /\ scanSnap' = IndexUpperBound(store, ScanUpperBound(now))
    /\ worker' = [worker EXCEPT !.src = Head(swQ).src]
    /\ Quiet
    /\ UNCHANGED <<now, store, fgVars, toSw, appVars, clientConnected,
                   activeRingingAlarms, notifications, snoozeConfirmation,
                   notifQ, timerDue, toClient, ticks, snoozed, recon,
                   userSteps, handled>>

\* A failed scan that asks for another scan at once.
checkAlarmsFailedRetries(q, src) == Append(q, [action |-> "scan", src |-> src])

\* checkAlarms' catch (console.error) and request.onerror (resolve()): the
\* scan ends there; q is the scans still to run.
checkAlarmsFailed(q, src) == q

\* What a failed scan found when it started.
ScanFailOp(stage, src) ==
    [op |-> "scanFail", stage |-> stage, src |-> src,
     ring |-> activeRingingAlarms, store |-> store, timerDue |-> timerDue,
     scans |-> Len(swQ), alerts |-> notifQ, posted |-> toClient]

\* checkAlarms when initDB() rejects: the catch logs the error.
ScanOpenFail(limit) ==
    /\ worker.fails < limit
    /\ swQ # <<>>
    /\ Head(swQ).action = "scan"
    /\ scanPc = "idle"
    /\ swQ' = checkAlarmsFailed(Tail(swQ), Head(swQ).src)
    /\ worker' = [worker EXCEPT !.src = Head(swQ).src, !.failedAt = now,
                                !.fails = @ + 1]
    /\ lastOp' = ScanFailOp("open", Head(swQ).src)
    /\ scanOut' = NoScan
    /\ UNCHANGED <<now, store, fgVars, toSw, appVars, clientConnected,
                   activeRingingAlarms, notifications, snoozeConfirmation,
                   notifQ, scanPc, scanSnap, timerDue, toClient, ticks,
                   snoozed, recon, userSteps, handled>>

\* checkAlarms when the index request fails: request.onerror resolves.
ScanReadFail(limit) ==
    /\ worker.fails < limit
    /\ scanPc = "read"
    /\ scanPc' = "idle"
    /\ scanSnap' = {}
    /\ swQ' = checkAlarmsFailed(swQ, worker.src)
    /\ worker' = [worker EXCEPT !.failedAt = now, !.fails = @ + 1]
    /\ lastOp' = [ScanFailOp("read", worker.src) EXCEPT !.scans = @ + 1]
    /\ scanOut' = NoScan
    /\ UNCHANGED <<now, store, fgVars, toSw, appVars, clientConnected,
                   activeRingingAlarms, notifications, snoozeConfirmation,
                   notifQ, timerDue, toClient, ticks, snoozed, recon,
                   userSteps, handled>>

\* checkAlarms: request.onsuccess.
ScanProcess ==
    /\ scanPc = "read"
    /\ LET d == CheckAll(Dispatcher, scanSnap, now)
       IN  /\ Len(d.tc) <= MaxChan
           /\ activeRingingAlarms' = d.ring
           /\ notifQ' = d.nq
           /\ toClient' = d.tc
           /\ scanOut' = [valid |-> TRUE, at |-> now, src |-> worker.src,
                          before |-> DOMAIN activeRingingAlarms,
                          started |-> d.started, shown |-> d.shown,
                          posted |-> d.posted]
    /\ scanPc' = "idle"
    /\ scanSnap' = {}
    /\ lastOp' = NoOp
    /\ UNCHANGED <<now, store, fgVars, toSw, appVars, clientConnected,
                   notifications, snoozeConfirmation, timerDue, swQ, ticks,
                   snoozed, recon, userSteps, handled,
                   worker>>

(* ----------------------- dispatcher: the alerts ------------------------ *)

ShowNotificationStacks(n, tag) ==
    MapSet(n, tag, IF tag \in DOMAIN n THEN n[tag] + 1 ELSE 1)

\* registration.showNotification with a tag: replaces the alert that has
\* the same tag.  Nothing is shown without the permission.
ShowNotification(n, tag) ==
    IF permission = "granted" THEN MapSet(n, tag, 1) ELSE n

\* getNotifications({tag}).then(ns => ns.forEach(n => n.close())): the
\* listed alerts are closed, as far as they are still on screen.
CloseNotifications(n, tag, listed) ==
    IF Count(n, tag) > listed THEN MapSet(n, tag, Count(n, tag) - listed)
    ELSE MapDel(n, tag)

\* One pending getNotifications callback runs.  Its list was made at some
\* moment between the request and the callback: it holds the alerts of
\* the request's moment or those of now.
NotifTask ==
    /\ notifQ # <<>>
    /\ LET task == Head(notifQ)
       IN  \E listed \in {task.seen, Count(notifications, task.tag)} :
              LET closed == CloseNotifications(notifications, task.tag,
                                               listed)
              IN  notifications' = IF task.op = "reshow"
                                   THEN ShowNotification(closed, task.tag)
                                   ELSE closed
    /\ notifQ' = Tail(notifQ)
    /\ Quiet
    /\ UNCHANGED <<now, store, fgVars, toSw, appVars, clientConnected,
                   activeRingingAlarms, snoozeConfirmation, scanPc, scanSnap,
                   timerDue, swQ, toClient, ticks, snoozed, recon, userSteps,
                   handled,
                   worker>>

(* ------------------ dispatcher: notificationclick ---------------------- *)

\* event.notification.close(): the alert the user acted on goes away.
CloseClicked(n, tag) ==
    IF n[tag] > 1 THEN [n EXCEPT ![tag] = n[tag] - 1] ELSE MapDel(n, tag)

LastIs(q, m) == Len(q) > 0 /\ q[Len(q)] = m

\* notificationclick with action 'dismiss' or 'snooze', up to the await of
\* initDB(): close the alert, stopRingingAlarm, request the store.
ClickAction(action, alarmId, limit) ==
    /\ worker.alive
    /\ alarmId \in DOMAIN notifications
    /\ userSteps < limit
    /\ userSteps' = userSteps + 1
    /\ LET d == stopRingingAlarm(
                    [Dispatcher EXCEPT
                       !.n = CloseClicked(notifications, alarmId)], alarmId)
       IN  /\ Len(d.tc) <= MaxChan
           /\ activeRingingAlarms' = d.ring
           /\ notifQ' = d.nq
           /\ toClient' = d.tc
           /\ swQ' = Append(swQ,
                 [action |-> action, alarmId |-> alarmId,
                  stopped |-> (clientConnected =>
                                 LastIs(d.tc, [type |-> "ALARM_STOPPED",
                                               alarmId |-> alarmId])),
                  closed |-> alarmId \notin
                                DOMAIN CloseClicked(notifications, alarmId),
                  cleared |-> alarmId \notin DOMAIN d.ring,
                  closing |-> /\ d.nq # <<>>
                              /\ d.nq[Len(d.nq)].op = "close"
                              /\ d.nq[Len(d.nq)].tag = alarmId,
                  missed |-> \E r \in Get(store, alarmId) :
                                /\ r.enabled
                                /\ alarmId \notin DOMAIN activeRingingAlarms
                                /\ now - DateFromISO(r.alarmTime)
                                      >= WindowAfterMs])
    /\ notifications' = CloseClicked(notifications, alarmId)
    /\ Quiet
    /\ UNCHANGED <<now, store, fgVars, toSw, appVars, clientConnected,
                   snoozeConfirmation, scanPc, scanSnap, timerDue, ticks,
                   snoozed, recon, handled,
                   worker>>

ClickDismiss(limit) ==
    \E id \in DOMAIN notifications : ClickAction("dismiss", id, limit)

ClickSnooze(limit) ==
    \E id \in DOMAIN notifications : ClickAction("snooze", id, limit)

\* A snooze counted from the old alarm time instead of the tap.
SnoozedAlarmFromFireTime(alarm, t) ==
    [alarm EXCEPT !.alarmTime = toISOString(DateFromISO(alarm.alarmTime)
                                            + SnoozeMinutes * MinuteMs),
                  !.enabled = TRUE]

\* A snooze of one minute.
SnoozedAlarmOneMinute(alarm, t) ==
    [alarm EXCEPT !.alarmTime = toISOString(t + MinuteMs),
                  !.enabled = TRUE]

\* snooze: newAlarmTime = new Date(Date.now() + 5 * 60 * 1000)
SnoozedAlarm(alarm, t) ==
    [alarm EXCEPT !.alarmTime = toISOString(t + SnoozeMinutes * MinuteMs),
                  !.enabled = TRUE]

\* A snooze that writes a record from the alert's data when the store has
\* none.
SnoozePutCreates(s, found, alarmId, t) ==
    IF found = {}
    THEN Put(s, [id |-> alarmId, time |-> alarmId[2],
                 subject |-> alarmId[3], date |-> toISOString(t),
                 alarmTime |-> toISOString(t + SnoozeMinutes * MinuteMs),
                 enabled |-> TRUE])
    ELSE Put(s, SnoozedAlarm(CHOOSE a \in found : TRUE, t))

\* snooze, getRequest.onsuccess: if (alarm) { ...; store.put(alarm) };
\* found is the result of store.get(alarmId), empty when there is no
\* record.
SnoozePut(s, found, alarmId, t) ==
    IF found = {} THEN s
    ELSE Put(s, SnoozedAlarm(CHOOSE a \in found : TRUE, t))

\* dismiss, after the await: store.delete(alarmId) in a read-write
\* transaction.
DismissDb ==
    /\ swQ # <<>>
    /\ Head(swQ).action = "dismiss"
    /\ CanWrite
    /\ LET h == Head(swQ)
       IN  /\ store' = Delete(store, h.alarmId)
           /\ lastOp' = [op |-> "dismiss", id |-> h.alarmId, at |-> now,
                         stopped |-> h.stopped, closed |-> h.closed,
                         closing |-> h.closing,
                         missed |-> h.missed /\ Get(store, h.alarmId) # {},
                         raced |-> scanOut.valid]
           /\ snoozed' = MapDel(snoozed, h.alarmId)
    /\ recon' = OtherWrite(recon)
    /\ handled' = MapSet(handled, Head(swQ).alarmId,
                         [Handled(handled, Head(swQ).alarmId) EXCEPT
                            !.dismissed = TRUE, !.reinserted = FALSE])
    /\ swQ' = Tail(swQ)
    /\ scanOut' = NoScan
    /\ UNCHANGED <<now, fgVars, toSw, appVars, clientConnected,
                   activeRingingAlarms, notifications, snoozeConfirmation,
                   notifQ, scanPc, scanSnap, timerDue, toClient, ticks,
                   userSteps,
                   worker>>

\* snooze, after the await: store.get(alarmId), and in its onsuccess, when
\* the record exists, the new alarmTime, activeRingingAlarms.delete,
\* store.put and the confirmation; all in one read-write transaction.
SnoozeDb ==
    /\ swQ # <<>>
    /\ Head(swQ).action = "snooze"
    /\ CanWrite
    /\ LET h == Head(swQ)
           found == Get(store, h.alarmId)
       IN  IF found # {}
           THEN LET alarm == CHOOSE a \in found : TRUE
                IN  /\ store' = SnoozePut(store, found, h.alarmId, now)
                    /\ activeRingingAlarms' =
                           MapDel(activeRingingAlarms, h.alarmId)
                    /\ snoozeConfirmation' =
                           (snoozeConfirmation \/ permission = "granted")
                    /\ lastOp' = [op |-> "snooze", id |-> h.alarmId,
                                  at |-> now, before |-> alarm,
                                  others |-> Delete(store, h.alarmId),
                                  stopped |-> h.stopped,
                                  closed |-> h.closed,
                                  closing |-> h.closing,
                                  missed |-> h.missed,
                                  raced |-> scanOut.valid]
                    /\ snoozed' = MapSet(snoozed, h.alarmId, now)
                    /\ recon' = OtherWrite(recon)
                    /\ handled' = MapSet(handled, h.alarmId,
                                         [Handled(handled, h.alarmId) EXCEPT
                                            !.snoozeAt = now])
           ELSE /\ store' = SnoozePut(store, found, h.alarmId, now)
                /\ lastOp' = [op |-> "snoozeMiss", id |-> h.alarmId,
                               store |-> store, stopped |-> h.stopped,
                               cleared |-> h.cleared]
                /\ UNCHANGED <<activeRingingAlarms,
                               snoozeConfirmation, snoozed, recon, handled>>
    /\ swQ' = Tail(swQ)
    /\ scanOut' = NoScan
    /\ UNCHANGED <<now, fgVars, toSw, appVars, clientConnected, notifications,
                   notifQ, scanPc, scanSnap, timerDue, toClient, ticks,
                   userSteps,
                   worker>>

(* --------------------------- App: the tones ---------------------------- *)

\* activeAlarmAudio.has(alarmId)
HasTone(a, alarmId) == alarmId \in DOMAIN a /\ a[alarmId].held

\* The oscillators started for alarmId and not stopped.
Tones(a, alarmId) == IF alarmId \in DOMAIN a THEN a[alarmId].tones ELSE 0

\* A playAlarmSound that does not look whether a tone is playing: the new
\* entry replaces the old one in the Map, whose oscillator goes on.
playAlarmSoundAgain(a, alarmId) ==
    MapSet(a, alarmId, [tones |-> Tones(a, alarmId) + 1, held |-> TRUE])

\* playAlarmSound: nothing when the Map has the id; else a new
\* AudioContext and oscillator, started, and the Map entry.
playAlarmSound(a, alarmId) ==
    IF HasTone(a, alarmId) THEN a
    ELSE MapSet(a, alarmId, [tones |-> Tones(a, alarmId) + 1,
                             held |-> TRUE])

\* A stopAlarmSound that stops every tone.
stopAllAlarmSounds(a, alarmId) == EmptyMap

\* stopAlarmSound: nothing when the Map has no entry for the id; else the
\* entry's oscillator is stopped, its context closed, its interval cleared
\* and the entry deleted.
stopAlarmSound(a, alarmId) ==
    IF ~HasTone(a, alarmId) THEN a
    ELSE IF a[alarmId].tones > 1
         THEN MapSet(a, alarmId, [tones |-> a[alarmId].tones - 1,
                                  held |-> FALSE])
         ELSE MapDel(a, alarmId)

\* App handleMessage: ALARM_RINGING -> playAlarmSound, ALARM_STOPPED ->
\* stopAlarmSound.
AppReceive ==
    /\ toClient # <<>>
    /\ LET m == Head(toClient)
       IN  /\ activeAlarmAudio' =
                 IF m.type = "ALARM_RINGING"
                 THEN playAlarmSound(activeAlarmAudio, m.alarmId)
                 ELSE stopAlarmSound(activeAlarmAudio, m.alarmId)
           /\ lastOp' = [op |-> "message", type |-> m.type,
                         id |-> m.alarmId, before |-> activeAlarmAudio]
    /\ toClient' = Tail(toClient)
    /\ scanOut' = NoScan
    /\ UNCHANGED <<now, store, fgVars, toSw, clientConnected, swVars, ticks,
                   snoozed, recon, userSteps, handled>>

\* The ids the Map has an entry for.
HeldIds(a) == {id \in DOMAIN a : a[id].held}

\* A forEach that ends after its first entry.
StopFirst(a, ids) ==
    IF ids = {} THEN a ELSE stopAlarmSound(a, CHOOSE id \in ids : TRUE)

\* activeAlarmAudio.forEach((audio, alarmId) => stopAlarmSound(alarmId)):
\* every entry is visited once; the entry a visit deletes is the one it is
\* at.
RECURSIVE StopEach(_, _)
StopEach(a, ids) ==
    IF ids = {} THEN a
    ELSE LET id == CHOOSE i \in ids : TRUE
         IN  StopEach(stopAlarmSound(a, id), ids \ {id})

\* The cleanup of App's effect (the page is torn down): every tone of the
\* Map is stopped and the message listener removed; what the worker had
\* posted and the page not yet handled is dropped.
AppCleanup ==
    /\ clientConnected
    /\ activeAlarmAudio' = StopEach(activeAlarmAudio,
                                    HeldIds(activeAlarmAudio))
    /\ clientConnected' = FALSE
    /\ toClient' = <<>>
    /\ lastOp' = [op |-> "cleanup", before |-> activeAlarmAudio]
    /\ scanOut' = NoScan
    /\ UNCHANGED <<now, store, fgVars, toSw, swVars, ticks, snoozed, recon,
                   userSteps, handled>>

\* App mounts again: its effect runs with a new, empty Map; a tone the old
\* Map had not stopped goes on, held by nothing.
AppMount ==
    /\ ~clientConnected
    /\ clientConnected' = TRUE
    /\ activeAlarmAudio' = [id \in DOMAIN activeAlarmAudio |->
                               [activeAlarmAudio[id] EXCEPT !.held = FALSE]]
    /\ Quiet
    /\ UNCHANGED <<now, store, fgVars, toSw, swVars, toClient, ticks,
                   snoozed, recon, userSteps, handled>>

(* --------------------------- the timetable ----------------------------- *)

\* fetchTimetable's result for the model: two days of section A, the slot
\* times from SLOTS_ADE.  A day is its local calendar day number.
Days == {1, 2}
\* The days of the calendar strip: those with classes and one without.
CalendarDays == Days \cup {3}
\* Days of a timetable whose first slot has a time that is no "HH:MM":
\* "25:00", "12:75", "ab:00", "9", "" and no time at all.
MalformedDays == {4, 5, 6, 7, 8, 9}
MalformedTime ==
    [d \in MalformedDays |->
        CASE d = 4 -> <<25, 0>>
          [] d = 5 -> <<12, 75>>
          [] d = 6 -> <<NotNumeric, 0>>
          [] d = 7 -> <<9>>
          [] d = 8 -> <<Blank>>
          [] d = 9 -> <<>>]
Timetable ==
    [d \in Days \cup MalformedDays |->
        IF d = 1
        THEN <<[time |-> <<9, 15>>, subject |-> "A"],
               [time |-> <<11, 0>>, subject |-> "B"]>>
        ELSE IF d = 2
        THEN <<[time |-> <<11, 0>>, subject |-> "B"],
               [time |-> <<12, 45>>, subject |-> "C"]>>
        ELSE <<[time |-> MalformedTime[d], subject |-> "A"],
               [time |-> <<11, 0>>, subject |-> "B"]>>]

\* The device zones of the model: UTC, UTC+05:30, UTC-05:00.
Zones == {0, 19800000, -18000000}

\* ScheduleView selectedDayClasses: the slots of the day whose dateObj, at
\* local midnight, equals currentDate at local midnight.
selectedDayClasses(date, zone) ==
    LET day == (date + zone) \div DayMs
    IN  IF day \in DOMAIN Timetable THEN Timetable[day] ELSE <<>>

\* The AlarmInfo the alarm effect builds for a slot of the displayed day.
AlarmInfoOf(slot, date, zone) ==
    [id |-> generateAlarmId(date, slot.time, slot.subject),
     time |-> slot.time,
     subject |-> slot.subject,
     date |-> date,
     alarmTime |-> calculateAlarmTime(parseTimeString(slot.time, date, zone),
                                      zone)]

\* saveAlarmToDB's alarmData, for scheduleAlarm's
\* { ...alarmInfo, enabled: true }
AlarmData(alarmInfo) ==
    [id |-> alarmInfo.id,
     time |-> alarmInfo.time,
     subject |-> alarmInfo.subject,
     date |-> toISOString(alarmInfo.date),
     alarmTime |-> toISOString(alarmInfo.alarmTime),
     enabled |-> TRUE]

\* The records a completed reconcile of day with the master toggle on
\* leaves in the store.
DayRecords(day, zone) ==
    LET date == LocalMidnight(day, zone)
        slots == selectedDayClasses(date, zone)
    IN  {AlarmData(AlarmInfoOf(slots[i], date, zone)) : i \in DOMAIN slots}

(* ------------------ the page: ScheduleView's alarms -------------------- *)

NoAlarm == [id |-> <<>>]

\* setupAlarms' alarmsToSchedule, from the values the render closed over.
alarmsToSchedule(master, enabled, date, zone) ==
    LET slots == selectedDayClasses(date, zone)
        infos == [i \in DOMAIN slots |-> AlarmInfoOf(slots[i], date, zone)]
        shouldSchedule(a) == master \/ a.id \in enabled
        \* parseTimeString(undefined): split of undefined is a TypeError,
        \* thrown out of the forEach and out of setupAlarms
        typeError == \E i \in DOMAIN infos :
                        shouldSchedule(infos[i]) /\ infos[i].time = <<>>
    IN  IF (~master /\ enabled = {}) \/ typeError THEN <<>>
        ELSE SelectSeq(infos, shouldSchedule)

\* The alarm effect re-runs: the previous run's cleanup calls
\* cancelAllAlarms() un-awaited, then the new setupAlarms() awaits its own
\* cancelAllAlarms().  A run still in its scheduling loop is not cancelled;
\* it goes on (marked "old" here) behind the new run's requests.
RunEffect(q, master, enabled, date, zone, mounted) ==
    LET stale == [i \in DOMAIN q |->
                     IF q[i].run = "cur" THEN [q[i] EXCEPT !.run = "old"]
                     ELSE q[i]]
        cleanup == IF mounted
                   THEN <<[kind |-> "clear", run |-> "cleanup",
                           alarm |-> NoAlarm, rest |-> <<>>]>>
                   ELSE <<>>
    IN  stale \o cleanup \o
        <<[kind |-> "clear", run |-> "cur", alarm |-> NoAlarm,
           rest |-> alarmsToSchedule(master, enabled, date, zone)]>>

\* The requests the page has pending when ScheduleView unmounts: a run of
\* setupAlarms under way goes on, and the effect's cleanup adds its
\* cancelAllAlarms().
Unmount(q) ==
    [i \in DOMAIN q |->
        IF q[i].run = "cur" THEN [q[i] EXCEPT !.run = "old"] ELSE q[i]]
    \o <<[kind |-> "clear", run |-> "cleanup", alarm |-> NoAlarm,
          rest |-> <<>>]>>

\* What the user may do with the browser's permission prompt: allow,
\* block, or close it without an answer.
Answers == {"granted", "denied", "default"}

\* A request that asks the browser whatever the state is.
requestNotificationPermissionAsksAlways(perm, answer) ==
    [prompted |-> TRUE, permission |-> answer, result |-> answer = "granted"]

\* A request that reports the permission as given whatever the state is.
requestNotificationPermissionGrants(perm, answer) ==
    [prompted |-> FALSE, permission |-> perm, result |-> TRUE]

\* requestNotificationPermission: true at once when the permission is
\* granted; when it is not denied, Notification.requestPermission() (the
\* browser's prompt; the state becomes the user's answer) and whether the
\* answer is 'granted'; false when denied.  The result is the boolean the
\* function returns, with the state it leaves and whether it asked.
requestNotificationPermission(perm, answer) ==
    IF perm = "granted"
    THEN [prompted |-> FALSE, permission |-> perm, result |-> TRUE]
    ELSE IF perm # "denied"
         THEN [prompted |-> TRUE, permission |-> answer,
               result |-> answer = "granted"]
         ELSE [prompted |-> FALSE, permission |-> perm, result |-> FALSE]

\* What lastOp holds after a toggle handler: what requestNotificationPermission
\* found, did and returned, and the toggles as they were.
ToggleOp(req) ==
    [op |-> "toggle", before |-> permission, prompted |-> req.prompted,
     result |-> req.result, master |-> masterAlarmEnabled,
     enabled |-> enabledAlarms]

\* handleMasterAlarmToggle, and the alarm effect it triggers.
ToggleMaster(limit) ==
    /\ clientConnected
    /\ currentView = "schedule"
    /\ userSteps < limit
    /\ \E answer \in Answers :
          LET hasPermission ==
                  requestNotificationPermission(permission, answer)
          IN  /\ permission' = hasPermission.permission
              /\ lastOp' = ToggleOp(hasPermission)
              /\ IF hasPermission.result
                 THEN /\ masterAlarmEnabled' = ~masterAlarmEnabled
                      /\ activeAlarms' = EmptyMap
                      /\ fgQ' = RunEffect(fgQ, masterAlarmEnabled',
                                          enabledAlarms, currentDate, tz,
                                          TRUE)
                 ELSE UNCHANGED <<masterAlarmEnabled, activeAlarms, fgQ>>
    /\ userSteps' = userSteps + 1
    /\ scanOut' = NoScan
    /\ UNCHANGED <<now, store, tz, currentView, enabledAlarms, currentDate,
                   toSw, appVars,
                   clientConnected, swVars, toClient, ticks, snoozed, recon,
                   handled>>

\* handleAlarmToggle for a card of the displayed day: the updater removes
\* the id and calls cancelAlarm(alarmId) un-awaited, or adds the id; then
\* the alarm effect runs again.
ToggleAlarm(limit) ==
    /\ clientConnected
    /\ currentView = "schedule"
    /\ userSteps < limit
    /\ \E answer \in Answers :
       \E i \in DOMAIN selectedDayClasses(currentDate, tz) :
          LET slot == selectedDayClasses(currentDate, tz)[i]
              alarmId == generateAlarmId(currentDate, slot.time,
                                         slot.subject)
              off == alarmId \in enabledAlarms
              cancel == IF off
                        THEN <<[kind |-> "delete", run |-> "cancel",
                                alarm |-> [id |-> alarmId],
                                rest |-> <<>>]>>
                        ELSE <<>>
              hasPermission ==
                  requestNotificationPermission(permission, answer)
          IN  /\ permission' = hasPermission.permission
              /\ lastOp' = ToggleOp(hasPermission)
              /\ IF hasPermission.result
                 THEN /\ enabledAlarms' =
                             IF off THEN enabledAlarms \ {alarmId}
                             ELSE enabledAlarms \cup {alarmId}
                      /\ activeAlarms' = EmptyMap
                      /\ fgQ' = RunEffect(fgQ \o cancel, masterAlarmEnabled,
                                          enabledAlarms', currentDate, tz,
                                          TRUE)
                 ELSE UNCHANGED <<enabledAlarms, activeAlarms, fgQ>>
    /\ userSteps' = userSteps + 1
    /\ scanOut' = NoScan
    /\ UNCHANGED <<now, store, tz, currentView, masterAlarmEnabled,
                   currentDate, toSw,
                   appVars, clientConnected, swVars, toClient, ticks,
                   snoozed, recon, handled>>

\* ScheduleView's effect on mount: requestNotificationPermission(), its
\* result unused.  The user answers the prompt, if there is one.
MountRequest(limit) ==
    /\ clientConnected
    /\ currentView = "schedule"
    /\ userSteps < limit
    /\ \E answer \in Answers :
          LET hasPermission ==
                  requestNotificationPermission(permission, answer)
          IN  /\ permission' = hasPermission.permission
              /\ lastOp' = [ToggleOp(hasPermission) EXCEPT
                               !.op = "permission"]
    /\ userSteps' = userSteps + 1
    /\ scanOut' = NoScan
    /\ UNCHANGED <<now, store, tz, currentView, masterAlarmEnabled,
                   enabledAlarms,
                   currentDate, activeAlarms, fgQ, toSw, appVars,
                   clientConnected, swVars, toClient, ticks, snoozed, recon,
                   handled>>

\* handleBack: setCurrentView('home') unmounts ScheduleView; the alarm
\* effect's cleanup calls cancelAllAlarms() un-awaited: the page's timeouts
\* are cleared at once, the store's clear is requested.  localStorage is
\* not touched.
handleBack(limit) ==
    /\ clientConnected
    /\ currentView = "schedule"
    /\ userSteps < limit
    /\ currentView' = "home"
    /\ activeAlarms' = EmptyMap
    /\ fgQ' = Unmount(fgQ)
    /\ userSteps' = userSteps + 1
    /\ lastOp' = [op |-> "back", pending |-> fgQ # <<>>]
    /\ scanOut' = NoScan
    /\ UNCHANGED <<now, store, tz, permission, masterAlarmEnabled,
                   enabledAlarms, currentDate, toSw, appVars,
                   clientConnected, swVars, toClient, ticks, snoozed, recon,
                   handled>>

\* handleSectionSelect: setCurrentView('schedule') mounts ScheduleView with
\* the toggles read from localStorage; its alarm effect runs for the first
\* time.
handleSectionSelect(limit) ==
    /\ clientConnected
    /\ currentView = "home"
    /\ userSteps < limit
    /\ currentView' = "schedule"
    /\ fgQ' = RunEffect(fgQ, masterAlarmEnabled, enabledAlarms, currentDate,
                        tz, FALSE)
    /\ userSteps' = userSteps + 1
    /\ Quiet
    /\ UNCHANGED <<now, store, tz, permission, masterAlarmEnabled,
                   enabledAlarms, currentDate, activeAlarms, toSw, appVars,
                   clientConnected, swVars, toClient, ticks, snoozed, recon,
                   handled>>

\* onSelectDate = setCurrentDate with another day of the calendar strip,
\* and the alarm effect it triggers.
SelectDate(limit) ==
    /\ clientConnected
    /\ currentView = "schedule"
    /\ userSteps < limit
    /\ \E d \in CalendarDays :
          /\ LocalMidnight(d, tz) # currentDate
          /\ currentDate' = LocalMidnight(d, tz)
    /\ activeAlarms' = EmptyMap
    /\ fgQ' = RunEffect(fgQ, masterAlarmEnabled, enabledAlarms,
                        currentDate', tz, TRUE)
    /\ userSteps' = userSteps + 1
    /\ Quiet
    /\ UNCHANGED <<now, store, tz, currentView, permission,
                   masterAlarmEnabled,
                   enabledAlarms, toSw, appVars, clientConnected, swVars,
                   toClient, ticks, snoozed, recon, handled>>

\* A store request of the page without its try and catch.
StoreRequestNoCatch(e, s, q, opens) ==
    IF ~opens \/ (e.kind = "put" /\ RangeError(e.alarm.alarmTime))
    THEN [store |-> s, toSw |-> q, thrown |-> TRUE]
    ELSE [store |-> CASE e.kind = "clear" -> Clear(s)
                      [] e.kind = "put" -> Put(s, AlarmData(e.alarm))
                      [] e.kind = "delete" -> Delete(s, e.alarm.id),
          toSw |-> Append(q,
                     CASE e.kind = "clear" -> [type |-> "ALARMS_CLEARED"]
                       [] e.kind = "put" -> [type |-> "ALARM_UPDATED"]
                       [] e.kind = "delete" -> [type |-> "ALARM_REMOVED"]),
          thrown |-> FALSE]

\* saveAlarmToDB, removeAlarmFromDB and the try of cancelAllAlarms: await
\* initDB(), a read-write transaction, the request (put, delete, clear),
\* then the message to the worker; when initDB() rejects (opens is false),
\* or saveAlarmToDB's alarmTime.toISOString() throws,
\* the catch logs and the function returns.  The result is the store, the
\* messages to the worker, and whether an error reached the caller.
StoreRequest(e, s, q, opens) ==
    IF ~opens \/ (e.kind = "put" /\ RangeError(e.alarm.alarmTime))
    THEN [store |-> s, toSw |-> q, thrown |-> FALSE]
    ELSE [store |-> CASE e.kind = "clear" -> Clear(s)
                      [] e.kind = "put" -> Put(s, AlarmData(e.alarm))
                      [] e.kind = "delete" -> Delete(s, e.alarm.id),
          toSw |-> Append(q,
                     CASE e.kind = "clear" -> [type |-> "ALARMS_CLEARED"]
                       [] e.kind = "put" -> [type |-> "ALARM_UPDATED"]
                       [] e.kind = "delete" -> [type |-> "ALARM_REMOVED"]),
          thrown |-> FALSE]

\* getAllAlarmsFromDB without its try and catch.
getAllAlarmsFromDBNoCatch(s, opens) ==
    IF ~opens THEN [alarms |-> {}, thrown |-> TRUE]
    ELSE [alarms |-> {[r EXCEPT !.date = DateFromISO(r.date),
                                !.alarmTime = DateFromISO(r.alarmTime)] :
                         r \in s},
          thrown |-> FALSE]

\* getAllAlarmsFromDB: store.getAll() in a read-only transaction, the
\* dates made Dates again; [] when initDB() rejects.
getAllAlarmsFromDB(s, opens) ==
    IF ~opens THEN [alarms |-> {}, thrown |-> FALSE]
    ELSE [alarms |-> {[r EXCEPT !.date = DateFromISO(r.date),
                                !.alarmTime = DateFromISO(r.alarmTime)] :
                         r \in s},
          thrown |-> FALSE]

\* The page's next store request completes: cancelAllAlarms' clear,
\* scheduleAlarm's saveAlarmToDB put (and then its timeout when the alarm
\* is more than a second away), or cancelAlarm's delete; each posts its
\* message to the worker, and a run's loop goes on to its next alarm.
FgStoreOp ==
    /\ fgQ # <<>>
    /\ CanWrite
    /\ Len(toSw) < MaxChan
    /\ LET e == Head(fgQ)
           next == IF e.rest # <<>>
                   THEN <<[kind |-> "put", run |-> e.run,
                           alarm |-> Head(e.rest), rest |-> Tail(e.rest)]>>
                   ELSE <<>>
           begun == IF e.kind = "clear" /\ e.run = "cur"
                    THEN [recon EXCEPT
                            !.phase = "running", !.clean = TRUE,
                            !.want = {AlarmData(e.rest[i]) :
                                         i \in DOMAIN e.rest}]
                    ELSE IF e.run = "cur" THEN recon
                    ELSE OtherWrite(recon)
           cancelled == CASE e.kind = "clear" ->
                               recon.cancelled \cup StoreIds(store)
                          [] e.kind = "put" ->
                               recon.cancelled \ {e.alarm.id}
                          [] e.kind = "delete" ->
                               recon.cancelled \cup {e.alarm.id}
           ended == e.run = "cur" /\ e.rest = <<>>
           done == [begun EXCEPT
                      !.phase = "done", !.prev = begun.want,
                      !.runs = IF begun.want = begun.prev /\ begun.runs > 0
                               THEN 2 ELSE 1]
       IN  /\ store' = StoreRequest(e, store, toSw, TRUE).store
           /\ toSw' = StoreRequest(e, store, toSw, TRUE).toSw
           /\ activeAlarms' =
                 IF e.kind # "put" THEN activeAlarms
                 ELSE IF DateFromISO(AlarmData(e.alarm).alarmTime) - now
                           > MinTimerMs
                      THEN MapSet(activeAlarms, e.alarm.id,
                                  DateFromISO(AlarmData(e.alarm).alarmTime))
                      ELSE MapDel(activeAlarms, e.alarm.id)
           /\ fgQ' = Tail(fgQ) \o next
           /\ snoozed' = IF e.kind = "clear" THEN EmptyMap
                         ELSE MapDel(snoozed, e.alarm.id)
           /\ recon' = [IF ended THEN done ELSE begun
                          EXCEPT !.cancelled = cancelled,
                                 !.unsaved = IF e.kind = "put"
                                             THEN @ \ {e.alarm.id} ELSE @]
           /\ handled' = IF e.kind = "put" /\ e.alarm.id \in DOMAIN handled
                          THEN [handled EXCEPT
                                  ![e.alarm.id].reinserted = TRUE]
                          ELSE handled
           /\ lastOp' = IF ended
                        THEN [op |-> "reconcile", clean |-> done.clean,
                              runs |-> done.runs, want |-> done.want]
                        ELSE NoOp
    /\ scanOut' = NoScan
    /\ UNCHANGED <<now, tz, currentView, permission, masterAlarmEnabled,
                   enabledAlarms,
                   currentDate, appVars, clientConnected, swVars, toClient,
                   ticks, userSteps>>

\* The page's next store request finds the store unavailable: initDB()
\* rejects.  The store and the messages stay as they are; scheduleAlarm
\* still arms its timeout; the run's loop goes on to its next alarm unless
\* the error reached it.
FgStoreFail(limit) ==
    /\ recon.fails < limit
    /\ fgQ # <<>>
    /\ LET e == Head(fgQ)
           res == StoreRequest(e, store, toSw, FALSE)
           next == IF e.rest # <<>> /\ ~res.thrown
                   THEN <<[kind |-> "put", run |-> e.run,
                           alarm |-> Head(e.rest), rest |-> Tail(e.rest)]>>
                   ELSE <<>>
           timer == /\ e.kind = "put"
                    /\ DateFromISO(AlarmData(e.alarm).alarmTime) - now
                          > MinTimerMs
           begun == IF e.kind = "clear" /\ e.run = "cur"
                    THEN [recon EXCEPT
                            !.phase = "running",
                            !.want = {AlarmData(e.rest[i]) :
                                         i \in DOMAIN e.rest}]
                    ELSE recon
           ended == e.run = "cur" /\ next = <<>>
           done == [begun EXCEPT !.phase = "done", !.prev = {}, !.runs = 0]
       IN  /\ store' = res.store
           /\ toSw' = res.toSw
           /\ activeAlarms' =
                 IF e.kind # "put" THEN activeAlarms
                 ELSE IF timer
                      THEN MapSet(activeAlarms, e.alarm.id,
                                  DateFromISO(AlarmData(e.alarm).alarmTime))
                      ELSE MapDel(activeAlarms, e.alarm.id)
           /\ fgQ' = Tail(fgQ) \o next
           /\ recon' = [IF e.run # "cur" THEN recon
                         ELSE [IF ended THEN done ELSE begun
                                 EXCEPT !.clean = FALSE]
                          EXCEPT !.unsaved = IF timer
                                             THEN @ \cup {e.alarm.id} ELSE @,
                                 !.fails = @ + 1]
           /\ lastOp' = [op |-> "storeFail", kind |-> e.kind,
                         thrown |-> res.thrown, store |-> store,
                         sent |-> toSw, timer |-> timer,
                         queued |-> fgQ' # <<>>]
    /\ scanOut' = NoScan
    /\ UNCHANGED <<now, tz, currentView, permission, masterAlarmEnabled,
                   enabledAlarms,
                   currentDate, appVars, clientConnected, swVars, toClient,
                   ticks, snoozed, userSteps, handled>>

\* A caller asks for the stored alarms: getAllAlarmsFromDB(), with the
\* store available or not.
FgGetAll(limit) ==
    /\ clientConnected
    /\ userSteps < limit
    /\ userSteps' = userSteps + 1
    /\ \E opens \in BOOLEAN :
          LET res == getAllAlarmsFromDB(store, opens)
          IN  lastOp' = [op |-> "getAll", opens |-> opens,
                         alarms |-> res.alarms, thrown |-> res.thrown,
                         store |-> store, sent |-> toSw]
    /\ scanOut' = NoScan
    /\ UNCHANGED <<now, store, fgVars, toSw, appVars, clientConnected,
                   swVars, toClient, ticks, snoozed, recon, handled>>

\* scheduleAlarm's timeout fires: CHECK_ALARMS to the worker.
FgTimer ==
    /\ \E id \in DOMAIN activeAlarms :
          /\ now >= activeAlarms[id]
          /\ activeAlarms' = MapDel(activeAlarms, id)
          /\ lastOp' = [op |-> "timer", id |-> id,
                        unsaved |-> id \in recon.unsaved]
    /\ Len(toSw) < MaxChan
    /\ toSw' = Append(toSw, [type |-> "CHECK_ALARMS"])
    /\ scanOut' = NoScan
    /\ UNCHANGED <<now, store, tz, currentView, permission,
                   masterAlarmEnabled,
                   enabledAlarms, currentDate, fgQ, appVars, clientConnected,
                   swVars, toClient, ticks, snoozed, recon, userSteps,
                   handled>>

\* A default branch that stops the alarm as the dismiss branch does.
DefaultTapStops(d, alarmId) == stopRingingAlarm(d, alarmId)

\* notificationclick's else branch: clients.matchAll, then focus or
\* openWindow; nothing of the dispatcher's state is touched.
DefaultTap(d, alarmId) == d

\* notificationclick with no action: the alert closes; the page is focused,
\* or opened when there is none, and ScheduleView mounts: its alarm effect
\* runs for the first time.
ClickDefault(limit) ==
    /\ worker.alive
    /\ userSteps < limit
    /\ userSteps' = userSteps + 1
    /\ \E id \in DOMAIN notifications :
          LET d == DefaultTap([Dispatcher EXCEPT
                                 !.n = CloseClicked(notifications, id)], id)
          IN  /\ Len(d.tc) <= MaxChan
              /\ notifications' = d.n
              /\ activeRingingAlarms' = d.ring
              /\ notifQ' = d.nq
              /\ toClient' = d.tc
              /\ lastOp' = [op |-> "tap", id |-> id,
                            opened |-> ~clientConnected]
    /\ clientConnected' = TRUE
    /\ fgQ' = IF clientConnected THEN fgQ
              ELSE RunEffect(<<>>, masterAlarmEnabled, enabledAlarms,
                             currentDate, tz, FALSE)
    /\ currentView' = IF clientConnected THEN currentView ELSE "schedule"
    /\ scanOut' = NoScan
    /\ UNCHANGED <<now, store, tz, permission, masterAlarmEnabled,
                   enabledAlarms, currentDate, activeAlarms, toSw, appVars,
                   snoozeConfirmation, scanPc, scanSnap, timerDue, swQ,
                   ticks, snoozed, recon, handled,
                   worker>>

(* --------------------- the dispatcher on its own ----------------------- *)

\* The worker has just started (startAlarmChecking: one scan at once, the
\* interval armed) 90 s before the first alarm of day 1 is due; the store
\* holds what the reconcile of day 1 left.
FirstFireTime == calculateAlarmTime(
                    parseTimeString(Timetable[1][1].time,
                                    LocalMidnight(1, 0), 0), 0)

InitDispatcherWith(records) ==
    /\ now \in {FirstFireTime - 3 * Step, FirstFireTime - 4 * Step}
    /\ store = records
    /\ tz = 0
    /\ currentView = "schedule"
    /\ permission = "granted"
    /\ masterAlarmEnabled = TRUE
    /\ enabledAlarms = {}
    /\ currentDate = LocalMidnight(1, 0)
    /\ activeAlarms = EmptyMap
    /\ fgQ = <<>>
    /\ toSw = <<>>
    /\ activeAlarmAudio = EmptyMap
    /\ clientConnected \in BOOLEAN
    /\ activeRingingAlarms = EmptyMap
    /\ notifications = EmptyMap
    /\ snoozeConfirmation = FALSE
    /\ notifQ = <<>>
    /\ toClient = <<>>
    /\ scanPc = "idle"
    /\ scanSnap = {}
    /\ timerDue = now + ScanPeriodMs
    /\ swQ = <<[action |-> "scan", src |-> "load"]>>
    /\ worker = [alive |-> TRUE, startedAt |-> now, stops |-> 0,
                 rang |-> {}, src |-> "none", failedAt |-> -1,
                 fails |-> 0, alarmCheckInterval |-> 1, intervals |-> {1},
                 events |-> 0]
    /\ ticks = 0
    /\ snoozed = EmptyMap
    /\ recon = NoRecon
    /\ userSteps = 0
    /\ handled = EmptyMap
    /\ scanOut = NoScan
    /\ lastOp = NoOp

InitDispatcher == InitDispatcherWith(DayRecords(1, 0))

NextDispatcher ==
    \/ Tick(MaxTicks)
    \/ TimerFire
    \/ ScanRead
    \/ ScanProcess
    \/ NotifTask
    \/ ClickDismiss(MaxClicks)
    \/ ClickSnooze(MaxClicks)
    \/ ClickDefault(MaxClicks)
    \/ DismissDb
    \/ SnoozeDb
    \/ AppReceive
    \/ FgStoreOp
    \/ FgTimer
    \/ SwMessage

SpecDispatcher == InitDispatcher /\ [][NextDispatcher]_vars

(* ------------------ the worker stopped and started --------------------- *)

\* setInterval: an interval is armed under an id that no armed timer has
\* (the least such id), and the id is kept in alarmCheckInterval.
setInterval(w) ==
    LET free == {h \in 1 .. Cardinality(w.intervals) + 1 :
                    h \notin w.intervals}
        id == CHOOSE h \in free : \A k \in free : h <= k
    IN  [w EXCEPT !.intervals = @ \cup {id}, !.alarmCheckInterval = id]

clearInterval(w, id) == [w EXCEPT !.intervals = @ \ {id}]

\* A start that arms a new interval and leaves the previous one armed.
startAlarmCheckingKeepsInterval(w) == setInterval(w)

\* startAlarmChecking, the interval: if (alarmCheckInterval)
\* clearInterval(alarmCheckInterval); ...; alarmCheckInterval =
\* setInterval(...).  (Its checkAlarms() and the interval's first due time
\* are in the actions that call it.)
startAlarmChecking(w) ==
    setInterval(IF w.alarmCheckInterval # 0
                THEN clearInterval(w, w.alarmCheckInterval)
                ELSE w)

\* The worker's globals as its script finds them when the browser starts
\* it: 'let alarmCheckInterval = null', no timer armed.
Loaded(w) ==
    [w EXCEPT !.alive = TRUE, !.startedAt = now, !.alarmCheckInterval = 0,
              !.intervals = {}]

\* The browser stops the worker while it is idle: what it held in memory,
\* the ringing map and the interval, is gone.  The store, the alerts on
\* screen and the page are not touched.
Stop(limit) ==
    /\ worker.alive
    /\ worker.stops < limit
    /\ swQ = <<>> /\ notifQ = <<>> /\ scanPc = "idle" /\ toSw = <<>>
    /\ worker' = [worker EXCEPT !.alive = FALSE, !.stops = @ + 1,
                                !.alarmCheckInterval = 0, !.intervals = {},
                                !.rang = DOMAIN activeRingingAlarms]
    /\ activeRingingAlarms' = EmptyMap
    /\ Quiet
    /\ UNCHANGED <<now, store, fgVars, toSw, appVars, clientConnected,
                   notifications, snoozeConfirmation, notifQ, scanPc,
                   scanSnap, timerDue, swQ, toClient, ticks, snoozed, recon,
                   userSteps, handled>>

\* A start that arms the interval without scanning at once.
StartTimerOnly ==
    /\ ~worker.alive
    /\ swQ' = <<>>
    /\ timerDue' = now + ScanPeriodMs
    /\ worker' = startAlarmChecking(Loaded(worker))
    /\ scanOut' = NoScan
    /\ lastOp' = [op |-> "start"]
    /\ UNCHANGED <<now, store, fgVars, toSw, appVars, clientConnected,
                   activeRingingAlarms, notifications, snoozeConfirmation,
                   notifQ, scanPc, scanSnap, toClient, ticks, snoozed, recon,
                   userSteps, handled>>

\* The browser starts the worker for an event (a fetch of the page, a
\* message, a tap on an alert): the script runs with an empty ringing map
\* and ends in startAlarmChecking(), checkAlarms() at once and the
\* interval armed.  When the script is a new version of the worker, the
\* install handler's checkAlarms() and the activate handler's
\* startAlarmChecking() follow.
Start ==
    /\ ~worker.alive
    /\ \E update \in BOOLEAN :
          /\ swQ' = IF update
                    THEN <<[action |-> "scan", src |-> "load"],
                           [action |-> "scan", src |-> "install"],
                           [action |-> "scan", src |-> "activate"]>>
                    ELSE <<[action |-> "scan", src |-> "load"]>>
          /\ worker' = IF update
                       THEN startAlarmChecking(
                                startAlarmChecking(Loaded(worker)))
                       ELSE startAlarmChecking(Loaded(worker))
    /\ timerDue' = now + ScanPeriodMs
    /\ scanOut' = NoScan
    /\ lastOp' = [op |-> "start"]
    /\ UNCHANGED <<now, store, fgVars, toSw, appVars, clientConnected,
                   activeRingingAlarms, notifications, snoozeConfirmation,
                   notifQ, scanPc, scanSnap, toClient, ticks, snoozed, recon,
                   userSteps, handled>>

NextRestart ==
    \/ Tick(MaxTicksRestart)
    \/ TimerFire
    \/ ScanRead
    \/ ScanProcess
    \/ NotifTask
    \/ ClickDismiss(MaxClicksRestart)
    \/ ClickSnooze(MaxClicksRestart)
    \/ ClickDefault(MaxClicksRestart)
    \/ DismissDb
    \/ SnoozeDb
    \/ AppReceive
    \/ FgStoreOp
    \/ FgTimer
    \/ SwMessage
    \/ Stop(MaxStops)
    \/ Start

\* The browser starts the worker with no page open, a minute and a half
\* before the first record is due.
InitRestart ==
    /\ InitDispatcher
    /\ ~clientConnected
    /\ now = FirstFireTime - 3 * Step

SpecRestart == InitRestart /\ [][NextRestart]_vars

\* A history of the taps: swQ's entry of a tap and lastOp of its store
\* request carry what the synchronous part of the handler did (stopped,
\* closed, closing) and whether the record was missed when the user
\* tapped: stored, enabled, not ringing, its window over.

\* The same, with what the browser's scheduling gives: time passes, a
\* timer that is due fires, a pending callback, transaction or message is
\* run.  Nothing is assumed of the user or of when the browser stops and
\* starts the worker.
FairRestart ==
    /\ WF_vars(Tick(MaxTicksRestart))
    /\ WF_vars(TimerFire)
    /\ WF_vars(ScanRead)
    /\ WF_vars(ScanProcess)
    /\ WF_vars(NotifTask)
    /\ WF_vars(DismissDb)
    /\ WF_vars(SnoozeDb)
    /\ WF_vars(AppReceive)
    /\ WF_vars(FgStoreOp)
    /\ WF_vars(FgTimer)
    /\ WF_vars(SwMessage)

SpecRestartFair == SpecRestart /\ FairRestart

(* -------------------------- the page's tones --------------------------- *)

\* The ids of the timetable's alarms on a device at UTC.
AlarmIds == StoreIds(DayRecords(1, 0) \cup DayRecords(2, 0))

\* The worker posts ALARM_RINGING or ALARM_STOPPED for an id to the page
\* it finds (startRingingAlarm, checkAlarms' keep-alive, stopRingingAlarm),
\* here in any order.
PostToClient ==
    /\ clientConnected
    /\ Len(toClient) < MaxChan
    /\ \E type \in {"ALARM_RINGING", "ALARM_STOPPED"}, id \in AlarmIds :
          toClient' = Append(toClient, [type |-> type, alarmId |-> id])
    /\ Quiet
    /\ UNCHANGED <<now, store, fgVars, toSw, appVars, clientConnected,
                   swVars, ticks, snoozed, recon, userSteps, handled>>

\* The page is open; its message listener is registered.
InitApp == InitDispatcher /\ clientConnected /\ now = FirstFireTime - 3 * Step

NextApp == PostToClient \/ AppReceive \/ AppCleanup \/ AppMount

SpecApp == InitApp /\ [][NextApp]_vars

(* ------------------------ the whole application ------------------------ *)

\* The fire time of the first class of day 1 on a device in zone.
FireTimeIn(zone) == calculateAlarmTime(
                        parseTimeString(Timetable[1][1].time,
                                        LocalMidnight(1, zone), zone), zone)

\* What a device brings to a session: its zone, the notification
\* permission, and the toggles localStorage holds (the second class of day
\* 1 individually enabled, or nothing).
SecondOfDay1(zone) == generateAlarmId(LocalMidnight(1, zone),
                                      Timetable[1][2].time,
                                      Timetable[1][2].subject)
Profiles ==
    {[tz |-> 0, permission |-> "granted", master |-> TRUE, enabled |-> {}],
     [tz |-> 19800000, permission |-> "granted", master |-> FALSE,
      enabled |-> {SecondOfDay1(19800000)}],
     [tz |-> -18000000, permission |-> "granted", master |-> TRUE,
      enabled |-> {SecondOfDay1(-18000000)}],
     [tz |-> 0, permission |-> "default", master |-> FALSE, enabled |-> {}]}

\* The user has just opened the app on day 1, one Step before the first
\* alarm of the day is due: the worker has started, ScheduleView has
\* mounted with the toggles localStorage held and its alarm effect is about
\* to run; the store holds what a session with the master toggle on left,
\* on a device that has granted the permission the toggles ask for.
InitOf(profiles) ==
    /\ \E p \in profiles :
          /\ tz = p.tz
          /\ currentView = "schedule"
          /\ permission = p.permission
          /\ masterAlarmEnabled = p.master
          /\ enabledAlarms = p.enabled
    /\ now = FireTimeIn(tz) - Step
    /\ store = IF permission = "granted" THEN DayRecords(1, tz) ELSE {}
    /\ currentDate = LocalMidnight(1, tz)
    /\ activeAlarms = EmptyMap
    /\ fgQ = RunEffect(<<>>, masterAlarmEnabled, enabledAlarms, currentDate,
                       tz, FALSE)
    /\ toSw = <<>>
    /\ activeAlarmAudio = EmptyMap
    /\ clientConnected = TRUE
    /\ activeRingingAlarms = EmptyMap
    /\ notifications = EmptyMap
    /\ snoozeConfirmation = FALSE
    /\ notifQ = <<>>
    /\ toClient = <<>>
    /\ scanPc = "idle"
    /\ scanSnap = {}
    /\ timerDue = now + ScanPeriodMs
    /\ swQ = <<[action |-> "scan", src |-> "load"]>>
    /\ worker = [alive |-> TRUE, startedAt |-> now, stops |-> 0,
                 rang |-> {}, src |-> "none", failedAt |-> -1,
                 fails |-> 0, alarmCheckInterval |-> 1, intervals |-> {1},
                 events |-> 0]
    /\ ticks = 0
    /\ snoozed = EmptyMap
    /\ recon = NoRecon
    /\ userSteps = 0
    /\ handled = EmptyMap
    /\ scanOut = NoScan
    /\ lastOp = NoOp

Init == InitOf(Profiles)

Next ==
    \/ Tick(MaxTicksApp)
    \/ TimerFire
    \/ SwMessage
    \/ ScanRead
    \/ ScanProcess
    \/ NotifTask
    \/ ClickDismiss(MaxUser)
    \/ ClickSnooze(MaxUser)
    \/ ClickDefault(MaxUser)
    \/ DismissDb
    \/ SnoozeDb
    \/ AppReceive
    \/ ToggleMaster(MaxUser)
    \/ ToggleAlarm(MaxUser)
    \/ SelectDate(MaxUser)
    \/ FgStoreOp
    \/ FgTimer

Spec == Init /\ [][Next]_vars

(* ------------------- the page and the permission ----------------------- *)

\* Sessions on a device whose user has blocked notifications after
\* switching alarms on (localStorage keeps the toggles), or has not been
\* asked yet, or has allowed them.
PageProfiles ==
    {[tz |-> 0, permission |-> "denied", master |-> TRUE, enabled |-> {}],
     [tz |-> 0, permission |-> "denied", master |-> FALSE,
      enabled |-> {SecondOfDay1(0)}],
     [tz |-> 0, permission |-> "default", master |-> FALSE, enabled |-> {}],
     [tz |-> 0, permission |-> "granted", master |-> FALSE, enabled |-> {}]}

InitPage == InitOf(PageProfiles)

\* The page and the worker, no alert tapped.
NextPage ==
    \/ Tick(MaxTicksApp)
    \/ TimerFire
    \/ SwMessage
    \/ ScanRead
    \/ ScanProcess
    \/ NotifTask
    \/ AppReceive
    \/ MountRequest(MaxUser)
    \/ ToggleMaster(MaxUser)
    \/ ToggleAlarm(MaxUser)
    \/ SelectDate(MaxUser)
    \/ FgStoreOp
    \/ FgTimer

SpecPage == InitPage /\ [][NextPage]_vars

\* The same, with what the browser's scheduling gives: time passes, a
\* timer that is due fires, a pending callback, transaction or message is
\* run.  Nothing is assumed of the user.
FairPage ==
    /\ WF_vars(Tick(MaxTicksApp))
    /\ WF_vars(TimerFire)
    /\ WF_vars(SwMessage)
    /\ WF_vars(ScanRead)
    /\ WF_vars(ScanProcess)
    /\ WF_vars(NotifTask)
    /\ WF_vars(AppReceive)
    /\ WF_vars(FgStoreOp)
    /\ WF_vars(FgTimer)

SpecPageFair == SpecPage /\ FairPage

\* The user leaves the schedule for the section list and comes back, with
\* the toggles as the profiles give them.
MaxUserBack == 3

UnmountProfiles ==
    {[tz |-> 0, permission |-> "granted", master |-> TRUE, enabled |-> {}],
     [tz |-> 0, permission |-> "granted", master |-> FALSE,
      enabled |-> {SecondOfDay1(0)}]}

InitUnmount == InitOf(UnmountProfiles)

NextUnmount ==
    \/ Tick(MaxTicksApp)
    \/ TimerFire
    \/ SwMessage
    \/ ScanRead
    \/ ScanProcess
    \/ NotifTask
    \/ AppReceive
    \/ handleBack(MaxUserBack)
    \/ handleSectionSelect(MaxUserBack)
    \/ FgStoreOp
    \/ FgTimer

SpecUnmount == InitUnmount /\ [][NextUnmount]_vars

\* A device that has allowed notifications and has the master toggle on,
\* or the second class of day 1 enabled by itself.
UnavailableProfiles ==
    {[tz |-> 0, permission |-> "granted", master |-> TRUE, enabled |-> {}],
     [tz |-> 0, permission |-> "granted", master |-> FALSE,
      enabled |-> {SecondOfDay1(0)}]}

InitUnavailable == InitOf(UnavailableProfiles)

\* The page and the worker on a device whose store may fail to open at a
\* request of the page.
NextUnavailable ==
    \/ Tick(MaxTicksFail)
    \/ SwMessage
    \/ ScanRead
    \/ ScanProcess
    \/ NotifTask
    \/ AppReceive
    \/ ToggleAlarm(MaxUser)
    \/ FgStoreOp
    \/ FgStoreFail(MaxFails)
    \/ FgGetAll(MaxUser)
    \/ FgTimer

SpecUnavailable == InitUnavailable /\ [][NextUnavailable]_vars

\* The worker alone, on a device whose store may fail to open, or fail a
\* read, at a scan.
NextScanFail ==
    \/ Tick(MaxTicksRestart)
    \/ TimerFire
    \/ ScanRead
    \/ ScanProcess
    \/ ScanOpenFail(MaxFails)
    \/ ScanReadFail(MaxFails)
    \/ NotifTask
    \/ ClickDismiss(MaxClicksRestart)
    \/ ClickSnooze(MaxClicksRestart)
    \/ DismissDb
    \/ SnoozeDb

SpecScanFail == InitRestart /\ [][NextScanFail]_vars

\* The worker's lifecycle, event by event: the browser stops it and starts
\* it (the script runs to its startAlarmChecking()), and delivers install
\* and activate events while it runs.
MaxEvents == 3

\* The script's top level on a start of the worker.
SwLoad ==
    /\ ~worker.alive
    /\ worker' = startAlarmChecking(Loaded(worker))
    /\ swQ' = <<[action |-> "scan", src |-> "load"]>>
    /\ timerDue' = now + ScanPeriodMs
    /\ scanOut' = NoScan
    /\ lastOp' = [op |-> "load"]
    /\ UNCHANGED <<now, store, fgVars, toSw, appVars, clientConnected,
                   activeRingingAlarms, notifications, snoozeConfirmation,
                   notifQ, scanPc, scanSnap, toClient, ticks, snoozed, recon,
                   userSteps, handled>>

\* 'install': skipWaiting(), waitUntil(checkAlarms()).
SwInstall(limit) ==
    /\ worker.alive
    /\ worker.events < limit
    /\ worker' = [worker EXCEPT !.events = @ + 1]
    /\ swQ' = Append(swQ, [action |-> "scan", src |-> "install"])
    /\ scanOut' = NoScan
    /\ lastOp' = [op |-> "install"]
    /\ UNCHANGED <<now, store, fgVars, toSw, appVars, clientConnected,
                   activeRingingAlarms, notifications, snoozeConfirmation,
                   notifQ, scanPc, scanSnap, timerDue, toClient, ticks,
                   snoozed, recon, userSteps, handled>>

\* 'activate': clients.claim(), startAlarmChecking().
SwActivate(limit) ==
    /\ worker.alive
    /\ worker.events < limit
    /\ worker' = [startAlarmChecking(worker) EXCEPT !.events = @ + 1]
    /\ swQ' = Append(swQ, [action |-> "scan", src |-> "activate"])
    /\ timerDue' = now + ScanPeriodMs
    /\ scanOut' = NoScan
    /\ lastOp' = [op |-> "activate", armed |-> worker.intervals]
    /\ UNCHANGED <<now, store, fgVars, toSw, appVars, clientConnected,
                   activeRingingAlarms, notifications, snoozeConfirmation,
                   notifQ, scanPc, scanSnap, toClient, ticks, snoozed, recon,
                   userSteps, handled>>

NextLifecycle ==
    \/ Tick(MaxTicksRestart)
    \/ TimerFire
    \/ ScanRead
    \/ ScanProcess
    \/ NotifTask
    \/ Stop(MaxStops)
    \/ SwLoad
    \/ SwInstall(MaxEvents)
    \/ SwActivate(MaxEvents)

SpecLifecycle == InitRestart /\ [][NextLifecycle]_vars

\* A store that holds records with enabled = false: the records of day 1
\* as a completed reconcile leaves them, some of them switched off by
\* another writer of the store.  No page is open.
Disabled(records, off) ==
    {[a EXCEPT !.enabled = a.id \notin off] : a \in records}

InitDisabled ==
    /\ \E off \in SUBSET StoreIds(DayRecords(1, 0)) \ {{}} :
          InitDispatcherWith(Disabled(DayRecords(1, 0), off))
    /\ ~clientConnected
    /\ now = FirstFireTime - 3 * Step

NextDisabled ==
    \/ Tick(MaxTicksRestart)
    \/ TimerFire
    \/ SwMessage
    \/ ScanRead
    \/ ScanProcess
    \/ NotifTask
    \/ ClickDismiss(MaxClicksRestart)
    \/ ClickSnooze(MaxClicksRestart)
    \/ ClickDefault(MaxClicksRestart)
    \/ DismissDb
    \/ SnoozeDb
    \/ AppReceive
    \/ FgStoreOp
    \/ FgTimer

SpecDisabled == InitDisabled /\ [][NextDisabled]_vars

\* The app opens on a day of a timetable that has a malformed slot time,
\* on a device that has allowed notifications and has the master toggle
\* on, one Step before the alarm of the day's second slot is due; the
\* store holds what the session before left for day 1.
InitMalformed ==
    /\ tz = 0
    /\ currentView = "schedule"
    /\ permission = "granted"
    /\ masterAlarmEnabled = TRUE
    /\ enabledAlarms = {}
    /\ \E d \in MalformedDays : currentDate = LocalMidnight(d, tz)
    /\ now = calculateAlarmTime(
                 parseTimeString(Timetable[1][2].time, currentDate, tz), tz)
               - Step
    /\ store = DayRecords(1, tz)
    /\ activeAlarms = EmptyMap
    /\ fgQ = RunEffect(<<>>, masterAlarmEnabled, enabledAlarms, currentDate,
                       tz, FALSE)
    /\ toSw = <<>>
    /\ activeAlarmAudio = EmptyMap
    /\ clientConnected = TRUE
    /\ activeRingingAlarms = EmptyMap
    /\ notifications = EmptyMap
    /\ snoozeConfirmation = FALSE
    /\ notifQ = <<>>
    /\ toClient = <<>>
    /\ scanPc = "idle"
    /\ scanSnap = {}
    /\ timerDue = now + ScanPeriodMs
    /\ swQ = <<[action |-> "scan", src |-> "load"]>>
    /\ worker = [alive |-> TRUE, startedAt |-> now, stops |-> 0,
                 rang |-> {}, src |-> "none", failedAt |-> -1,
                 fails |-> 0, alarmCheckInterval |-> 1, intervals |-> {1},
                 events |-> 0]
    /\ ticks = 0
    /\ snoozed = EmptyMap
    /\ recon = NoRecon
    /\ userSteps = 0
    /\ handled = EmptyMap
    /\ scanOut = NoScan
    /\ lastOp = NoOp

\* The page reconciles, the worker scans.
NextMalformed ==
    \/ Tick(MaxTicksApp)
    \/ TimerFire
    \/ SwMessage
    \/ ScanRead
    \/ ScanProcess
    \/ NotifTask
    \/ AppReceive
    \/ FgStoreOp
    \/ FgTimer

SpecMalformed == InitMalformed /\ [][NextMalformed]_vars

(* ------------------------------- claims -------------------------------- *)

(* ======================= claims: the dispatcher ======================== *)

\* The alert tagged id is open once the pending alert callbacks have run.
AlertStaysOpen(id) ==
    LET mine == {i \in DOMAIN notifQ : notifQ[i].tag = id}
    IN  IF mine = {}
        THEN id \in DOMAIN notifications
        ELSE notifQ[CHOOSE i \in mine : \A j \in mine : j <= i].op = "reshow"
             /\ permission = "granted"

\* C3 (firing window).  A scan at time t moves a stored, enabled record
\* that is not yet ringing into RINGING (ringing-map entry created, alert
\* shown, ALARM_RINGING sent to the connected page) if and only if
\* fireTime - 60 s <= t < fireTime + 120 s; in particular the index query
\* bounded by t + 60 s loses no record that passes this test.
C3_FiringWindow ==
    scanOut.valid =>
        \A r \in store :
            (r.enabled /\ r.id \notin scanOut.before) =>
                LET fireTime == DateFromISO(r.alarmTime)
                    due == /\ fireTime - 60 * 1000 <= scanOut.at
                           /\ scanOut.at < fireTime + 120 * 1000
                IN  /\ due <=> r.id \in scanOut.started
                    /\ due => /\ r.id \in DOMAIN activeRingingAlarms
                              /\ AlertStaysOpen(r.id)
                              /\ clientConnected =>
                                   \E i \in DOMAIN toClient :
                                       toClient[i] =
                                           [type |-> "ALARM_RINGING",
                                            alarmId |-> r.id]
                    /\ ~due => /\ r.id \notin DOMAIN activeRingingAlarms
                               /\ r.id \notin scanOut.shown
                               /\ r.id \notin scanOut.posted

\* C3 witness: a scan fired one record before its fire time (found only
\* through the 60 s buffer of the query) and left another one pending.
C3_Witness ==
    /\ scanOut.valid
    /\ \E r \in store : /\ r.id \in scanOut.started
                        /\ scanOut.at < DateFromISO(r.alarmTime)
    /\ \E r \in store : r.id \notin DOMAIN activeRingingAlarms

\* C4 (as claimed).  An alarm that is ringing when a scan starts, and whose
\* record is still stored, is re-asserted by that scan: its alert is
\* shown again or ALARM_RINGING is broadcast again.
C4_ReassertedUntilDismissed ==
    scanOut.valid =>
        \A id \in scanOut.before :
            id \in StoreIds(store) => id \in scanOut.shown \cup scanOut.posted

\* C5 (as claimed).  While an alarm is ringing and its record is stored,
\* no more than 30 s have passed since its alert was last shown.
C5_ReshownEvery30s ==
    \A id \in DOMAIN activeRingingAlarms :
        id \in StoreIds(store) =>
            now - activeRingingAlarms[id].lastNotificationTime <= 30 * 1000

\* C6 (as claimed).  When the dismiss of id has finished (its delete has
\* run), the record is gone, id is not in the ringing map, the alert the
\* user acted on was closed and the close of every alert tagged id
\* requested, and ALARM_STOPPED for id went to every connected page.
C6_DismissPostcondition ==
    lastOp.op = "dismiss" =>
        /\ lastOp.id \notin StoreIds(store)
        /\ lastOp.id \notin DOMAIN activeRingingAlarms
        /\ lastOp.closed
        /\ lastOp.closing
        /\ lastOp.stopped

\* C6, what is left of it: the dismiss deletes the record, whatever else
\* runs.
C6_RecordDeleted ==
    lastOp.op = "dismiss" => lastOp.id \notin StoreIds(store)

\* C6 witness: a dismiss has finished with the page connected.
C6_Witness ==
    /\ lastOp.op = "dismiss"
    /\ clientConnected
    /\ store # {}

\* C8 (snooze transition).  When the snooze of a stored record X has run
\* at time T, the store holds exactly one record X, equal to the record
\* as it was but for alarmTime = T + 5 min and enabled = true; every other
\* record is as it was; X is not in the ringing map; the alert the user
\* acted on was closed and the close of every alert tagged X requested;
\* ALARM_STOPPED for X went to every connected page.
C8_SnoozeInPlace ==
    lastOp.op = "snooze" =>
        LET mine == Get(store, lastOp.id)
        IN  /\ Cardinality(mine) = 1
            /\ \A r \in mine :
                  /\ r.id = lastOp.before.id
                  /\ DateFromISO(r.alarmTime) = lastOp.at + 5 * 60 * 1000
                  /\ r.enabled = TRUE
                  /\ r.time = lastOp.before.time
                  /\ r.subject = lastOp.before.subject
                  /\ r.date = lastOp.before.date
            /\ store \ mine = lastOp.others
            /\ lastOp.id \notin DOMAIN activeRingingAlarms
            /\ lastOp.closed
            /\ lastOp.closing
            /\ lastOp.stopped

\* C8 witness: a ringing alarm was snoozed with the page connected, two
\* records stored.
C8_Witness ==
    /\ lastOp.op = "snooze"
    /\ clientConnected
    /\ DateFromISO(lastOp.before.alarmTime) < lastOp.at
    /\ Cardinality(store) = 2

\* C9 (snooze re-fire timing).  After record X was snoozed at time T, and
\* while nothing else has written X, a scan before T + 4 min does nothing
\* for X (in particular the scan at T + 1 min), and a scan in
\* [T + 4 min, T + 7 min) (in particular the scan at T + 5 min 30 s) fires
\* X as a new ringing alarm when X is not ringing, and keeps it ringing
\* (ALARM_RINGING broadcast again) when it is.
C9_SnoozeRefire ==
    scanOut.valid =>
        \A id \in DOMAIN snoozed :
            LET T == snoozed[id]
                fired == id \in scanOut.started
                touched == id \in scanOut.started \cup scanOut.shown
                                   \cup scanOut.posted
            IN  /\ scanOut.at < T + 4 * 60 * 1000 => ~touched
                /\ (/\ T + 4 * 60 * 1000 <= scanOut.at
                    /\ scanOut.at < T + 7 * 60 * 1000) =>
                      /\ id \in scanOut.posted
                      /\ id \in DOMAIN activeRingingAlarms
                      /\ id \notin scanOut.before => fired
                /\ scanOut.at >= T + 7 * 60 * 1000 => ~fired

\* C9 witness: the scan 5 min 30 s after a snooze keeps the snoozed alarm
\* ringing.
C9_Witness ==
    /\ scanOut.valid
    /\ \E id \in DOMAIN snoozed :
          /\ scanOut.at = snoozed[id] + 5 * 60 * 1000 + 30 * 1000
          /\ id \in scanOut.posted

\* C9 second witness: a scan fires a snoozed alarm anew.
C9_WitnessNew ==
    /\ scanOut.valid
    /\ \E id \in DOMAIN snoozed :
          /\ id \in scanOut.started
          /\ scanOut.at >= snoozed[id] + 4 * 60 * 1000

(* ========================= claims: reconcile =========================== *)

\* The slots of the displayed day the toggles ask an alarm for.
DesiredSlots ==
    LET slots == selectedDayClasses(currentDate, tz)
    IN  {i \in DOMAIN slots :
            \/ masterAlarmEnabled
            \/ generateAlarmId(currentDate, slots[i].time, slots[i].subject)
                   \in enabledAlarms}

\* C1 (reconcile is a total reset).  When a run of the alarm effect has
\* completed (its clear and the put of each alarm it schedules) and no
\* other writer has written the store in between, the store holds exactly
\* one record for each desired slot of the displayed day, carrying that
\* slot's id, time, subject and the displayed date, and no other record.
C1_ReconcileTotalReset ==
    (lastOp.op = "reconcile" /\ lastOp.clean) =>
        LET slots == selectedDayClasses(currentDate, tz)
            idOf(i) == generateAlarmId(currentDate, slots[i].time,
                                       slots[i].subject)
        IN  /\ \A i \in DesiredSlots :
                  Cardinality({r \in store :
                                  /\ r.id = idOf(i)
                                  /\ r.time = slots[i].time
                                  /\ r.subject = slots[i].subject
                                  /\ r.date = toISOString(currentDate)
                                  /\ r.enabled}) = 1
            /\ \A r \in store : \E i \in DesiredSlots : r.id = idOf(i)
            /\ Cardinality(store) = Cardinality(DesiredSlots)

\* C1 witness: the store held the records of 09:15 "A" and 11:00 "B"; a run
\* for the other day, desired 11:00 "B" and 12:45 "C", has completed
\* undisturbed.
C1_Witness ==
    /\ lastOp.op = "reconcile"
    /\ lastOp.clean
    /\ currentDate = LocalMidnight(2, tz)
    /\ {r.subject : r \in store} = {"B", "C"}

\* C1 second witness: with only 11:00 "B" individually enabled, the run has
\* dropped the stored record of 09:15 "A".
C1_WitnessUndesired ==
    /\ lastOp.op = "reconcile"
    /\ lastOp.clean
    /\ ~masterAlarmEnabled
    /\ {r.subject : r \in store} = {"B"}

\* C2 (reconcile is idempotent and never duplicates).  In every reachable
\* state the store holds at most one record per id; and when the second or
\* a later run in a row for the same desired set has completed
\* undisturbed, the store holds exactly one record per desired slot, the
\* one the run before was to leave.
C2_IdempotentNoDuplicate ==
    /\ \A r1, r2 \in store : r1.id = r2.id => r1 = r2
    /\ (lastOp.op = "reconcile" /\ lastOp.clean /\ lastOp.runs >= 2) =>
          /\ store = lastOp.want
          /\ store = recon.prev
          /\ Cardinality(StoreIds(store)) = Cardinality(DesiredSlots)

\* C2 witness: a second run in a row for the same two desired slots has
\* completed.
C2_Witness ==
    /\ lastOp.op = "reconcile"
    /\ lastOp.clean
    /\ lastOp.runs >= 2
    /\ Cardinality(store) = 2

\* C2 second witness: a snoozed record was put again under its id.
C2_WitnessUpsert ==
    /\ lastOp.op = "snooze"
    /\ Cardinality(Get(store, lastOp.id)) = 1
    /\ lastOp.before \notin store

(* =================== claims: dismiss, snooze, reconcile ================ *)

\* Whether the scan that has just run reported id: showed an alert for it,
\* added it to the ringing map or sent ALARM_RINGING for it.
Reported(id) == id \in scanOut.started \cup scanOut.shown \cup scanOut.posted

\* C7 as stated (dismiss correctness).  After id X has been dismissed, no
\* subsequent scan reports X.
C7_DismissedNeverReported ==
    scanOut.valid =>
        \A id \in DOMAIN handled :
            handled[id].dismissed => ~Reported(id)

\* C7 (dismiss correctness, as the code has it).  After id X has been
\* dismissed, no subsequent scan reports X unless the page has put the
\* record of X again since (a reconcile of the alarm effect).
C7_DismissedUntilReinserted ==
    scanOut.valid =>
        \A id \in DOMAIN handled :
            (handled[id].dismissed /\ ~handled[id].reinserted)
                => ~Reported(id)

\* C7 witness: a scan has run after a dismiss, at a time inside the firing
\* window of the dismissed alarm, while another alarm is still stored.
C7_Witness ==
    /\ scanOut.valid
    /\ store # {}
    /\ \E id \in DOMAIN handled :
          /\ handled[id].dismissed
          /\ ~handled[id].reinserted
          /\ scanOut.at >= FireTimeIn(tz) - 60 * 1000
          /\ scanOut.at < FireTimeIn(tz) + 120 * 1000

\* Both contexts have finished their store requests.
StoreSettled == fgQ = <<>> /\ swQ = <<>> /\ scanPc = "idle"

\* The record r is the one a snooze of id left.
AsSnoozed(r, id) ==
    /\ handled[id].snoozeAt >= 0
    /\ DateFromISO(r.alarmTime) = handled[id].snoozeAt + 5 * 60 * 1000
    /\ r.enabled

\* The record r is as the alarm effect writes it: due ten minutes before
\* the class of its day.
AsReconciled(r) ==
    /\ \E d \in Days : r \in DayRecords(d, tz)
    /\ r.enabled

\* C10 as stated (snooze or dismiss racing with reconcile).  Once the
\* dispatcher has snoozed or dismissed X and both contexts have finished,
\* the store holds no record of X or exactly one, rescheduled by the
\* snooze to snooze time + 5 min.
C10_TwoOutcomes ==
    StoreSettled =>
        \A id \in DOMAIN handled :
            \/ Get(store, id) = {}
            \/ /\ Cardinality(Get(store, id)) = 1
               /\ \A r \in Get(store, id) : AsSnoozed(r, id)

\* C10 (as the code has it).  Once the dispatcher has snoozed or dismissed
\* X and both contexts have finished, the store holds no record of X or
\* exactly one: the record rescheduled by the snooze to snooze time +
\* 5 min, or the record as a reconcile that wrote last put it, due ten
\* minutes before the class.  No other value and no duplicate.
C10_ThreeOutcomes ==
    StoreSettled =>
        \A id \in DOMAIN handled :
            \/ Get(store, id) = {}
            \/ /\ Cardinality(Get(store, id)) = 1
               /\ \A r \in Get(store, id) :
                     AsSnoozed(r, id) \/ AsReconciled(r)

\* C10 witness: a run of the alarm effect that a snooze or dismiss wrote
\* into has completed, and the snooze's record is what is left.
C10_Witness ==
    /\ lastOp.op = "reconcile"
    /\ ~lastOp.clean
    /\ StoreSettled
    /\ \E id \in DOMAIN handled :
          \E r \in Get(store, id) : AsSnoozed(r, id) /\ ~AsReconciled(r)

\* C10 second witness: the same, and the record is gone.
C10_WitnessGone ==
    /\ lastOp.op = "reconcile"
    /\ ~lastOp.clean
    /\ StoreSettled
    /\ store # {}
    /\ \E id \in DOMAIN handled : Get(store, id) = {}

(* ===================== claims: ids and fire times ====================== *)

\* C11 (as claimed).  Every record a run of the alarm effect is to store
\* for a slot (time, subject) of the displayed day has the id made of the
\* local calendar date of that day, the time and the subject, whatever the
\* zone of the device.
C11_IdUsesLocalDate ==
    lastOp.op = "reconcile" =>
        \A r \in lastOp.want :
            r.id = <<(DateFromISO(r.date) + tz) \div DayMs, r.time,
                     r.subject>>

\* C11 witness: a run has completed on a device east of UTC and has stored
\* a record.
C11_Witness ==
    /\ lastOp.op = "reconcile"
    /\ tz > 0
    /\ lastOp.want # {}
    /\ lastOp.want \subseteq store

\* C12 (fire time).  Every stored record that the alarm effect wrote (no
\* snooze has rewritten it since) is due exactly ten minutes before its
\* class: the local midnight of the displayed day plus the slot's hours
\* and minutes, seconds zero, minus 600 000 ms; also when the slot's
\* minutes are below ten.
C12_FireTimeTenMinutesBefore ==
    \A r \in store :
        r.id \notin DOMAIN snoozed =>
            LET day == (DateFromISO(r.date) + tz) \div (24 * 3600 * 1000)
                classTime == day * 24 * 3600 * 1000 - tz
                             + r.time[1] * 3600 * 1000 + r.time[2] * 60 * 1000
            IN  DateFromISO(r.alarmTime) = classTime - 10 * 60 * 1000

\* C12 witness: a run has stored the record of the 11:00 class, due at
\* 10:50 local time, on a device away from UTC.
C12_Witness ==
    /\ lastOp.op = "reconcile"
    /\ tz # 0
    /\ \E r \in store :
          /\ r \in lastOp.want
          /\ r.time = <<11, 0>>
          /\ (DateFromISO(r.alarmTime) + tz) % (24 * 3600 * 1000)
                 = 10 * 3600 * 1000 + 50 * 60 * 1000

(* ================= claims: scans, starts and the store ================= *)

\* C13 (a scan never writes).  From the index read of a scan to the end of
\* its onsuccess the store does not change; and when a scan has run, a
\* stored, enabled record that was not ringing and is outside its firing
\* window (before fireTime - 60 s, or at or after fireTime + 120 s, as a
\* record due three minutes ago) is still stored as it was, is not in the
\* ringing map, and nothing was shown or sent for it.
C13_ScanNeverWrites ==
    /\ [][(scanPc = "read" \/ scanPc' = "read") => store' = store]_vars
    /\ [](scanOut.valid =>
            \A r \in store :
               LET timeDiff == scanOut.at - DateFromISO(r.alarmTime)
               IN  (/\ r.enabled
                    /\ r.id \notin scanOut.before
                    /\ (timeDiff < -60 * 1000 \/ timeDiff >= 120 * 1000))
                   => /\ r.id \notin DOMAIN activeRingingAlarms
                      /\ ~Reported(r.id))

\* C13 witness: a scan has run two minutes or more after the fire time of
\* a stored record that was not ringing, and has left it alone.
C13_Witness ==
    /\ scanOut.valid
    /\ \E r \in store :
          /\ r.enabled
          /\ scanOut.at >= DateFromISO(r.alarmTime) + 2 * 60 * 1000
          /\ r.id \notin scanOut.before
          /\ r.id \notin DOMAIN activeRingingAlarms

\* C14 (one alert per id).  In every reachable state at most one alert is
\* on screen for each record id, whatever scans, rings, re-assertions and
\* stops have run and however their close-then-show callbacks interleave.
C14_OneAlertPerId ==
    \A tag \in DOMAIN notifications : notifications[tag] <= 1

\* C14 witness: two re-assertions of one id were issued back to back; the
\* first has shown its alert, the second, which listed no alert to close,
\* is still to show its own.
C14_Witness ==
    \E i \in DOMAIN notifQ :
        /\ notifQ[i].op = "reshow"
        /\ notifQ[i].seen = 0
        /\ Count(notifications, notifQ[i].tag) = 1

\* C15 (scan at start).  When the worker has started, a scan is requested
\* at once, ahead of the interval, the ringing map is empty and the
\* interval is armed for 60 s later; that first scan runs at the start
\* time and rings every stored, enabled record that is inside its firing
\* window, also one that was ringing before the worker stopped; while the
\* worker lives, the interval's scans run at the start time plus whole
\* multiples of 60 s, and none is skipped.
C15_ScanAtStart ==
    /\ lastOp.op = "start" =>
          /\ swQ # <<>>
          /\ Head(swQ) = [action |-> "scan", src |-> "load"]
          /\ activeRingingAlarms = EmptyMap
          /\ timerDue = now + 60 * 1000
    /\ worker.alive =>
          /\ now <= timerDue
          /\ timerDue <= now + 60 * 1000
          /\ (timerDue - worker.startedAt) % (60 * 1000) = 0
    /\ (scanOut.valid /\ scanOut.src = "load") =>
          /\ scanOut.at = worker.startedAt
          /\ scanOut.before = {}
          /\ \A r \in store :
                (/\ r.enabled
                 /\ DateFromISO(r.alarmTime) - 60 * 1000 <= scanOut.at
                 /\ scanOut.at < DateFromISO(r.alarmTime) + 120 * 1000)
                => /\ r.id \in scanOut.started
                   /\ r.id \in DOMAIN activeRingingAlarms
                   /\ AlertStaysOpen(r.id)
    /\ (scanOut.valid /\ scanOut.src = "timer") =>
          /\ scanOut.at > worker.startedAt
          /\ (scanOut.at - worker.startedAt) % (60 * 1000) = 0

\* C15 witness: the worker was stopped while a record was ringing and was
\* started again inside the record's window; the scan of the start has
\* rung the record anew.
C15_Witness ==
    /\ scanOut.valid
    /\ scanOut.src = "load"
    /\ worker.stops > 0
    /\ \E r \in store : r.id \in worker.rang /\ r.id \in scanOut.started

\* C15 second witness: an interval scan of the started-again worker has
\* run, 60 s after the start.
C15_WitnessInterval ==
    /\ scanOut.valid
    /\ scanOut.src = "timer"
    /\ worker.stops > 0
    /\ scanOut.at = worker.startedAt + 60 * 1000

\* The record of the first class of day 1 as the alarm effect stores it.
FirstRecord ==
    CHOOSE r \in DayRecords(1, 0) : DateFromISO(r.alarmTime) = FirstFireTime

\* C16 (liveness of firing).  If the record stays in the store as it is
\* until fireTime + 120 s and the worker stays alive, scanning every 60 s,
\* then the record becomes RINGING, and does so before fireTime + 120 s;
\* and every scan that runs inside the window of a stored enabled record,
\* however late, leaves the record ringing.
C16_FiresWithinWindow ==
    /\ ([](now < FirstFireTime + 120 * 1000 => FirstRecord \in store)
        /\ []worker.alive)
       => <>(/\ FirstRecord.id \in DOMAIN activeRingingAlarms
             /\ now < FirstFireTime + 120 * 1000)
    /\ [](scanOut.valid =>
            \A r \in store :
                (/\ r.enabled
                 /\ DateFromISO(r.alarmTime) - 60 * 1000 <= scanOut.at
                 /\ scanOut.at < DateFromISO(r.alarmTime) + 120 * 1000)
                => /\ r.id \in DOMAIN activeRingingAlarms
                   /\ r.id \in scanOut.before \cup scanOut.started)

\* C16 witness: the worker has lived from before fireTime - 60 s on and the
\* record, stored all along, is ringing 90 s after its fire time.
C16_Witness ==
    /\ worker.stops = 0
    /\ handled = EmptyMap
    /\ recon = NoRecon
    /\ FirstRecord \in store
    /\ now = FirstFireTime + 90 * 1000
    /\ FirstRecord.id \in DOMAIN activeRingingAlarms

\* C16 second witness: the only scan inside the window, that of a worker
\* started 90 s after the fire time, has fired the record.
C16_WitnessLate ==
    /\ scanOut.valid
    /\ scanOut.src = "load"
    /\ scanOut.at = FirstFireTime + 90 * 1000
    /\ worker.rang = {}
    /\ FirstRecord.id \in scanOut.started

\* C17 (cancellation by deletion).  Once the page has deleted the record
\* of an id (cancelAlarm's delete or cancelAllAlarms' clear has run) and
\* has not put it again, no scan shows an alert for the id, creates or
\* refreshes its ringing entry or sends ALARM_RINGING for it.
C17_CancelledNotFired ==
    scanOut.valid =>
        \A id \in recon.cancelled :
            /\ ~Reported(id)
            /\ id \in DOMAIN activeRingingAlarms => id \in scanOut.before

\* C17 witness: a scan has run inside the firing window of the first class
\* of the day after the page had deleted its record, with another record
\* still stored.
C17_Witness ==
    /\ scanOut.valid
    /\ store # {}
    /\ scanOut.at >= FireTimeIn(tz) - 60 * 1000
    /\ scanOut.at < FireTimeIn(tz) + 120 * 1000
    /\ \E id \in recon.cancelled :
          id = generateAlarmId(LocalMidnight(1, tz), Timetable[1][1].time,
                               Timetable[1][1].subject)

\* The scans' half of C18: a scan fires no stored, enabled record that was
\* not ringing and whose window is over (now >= fireTime + 120 s).
MissedNotFired ==
    scanOut.valid =>
        \A r \in store :
            (/\ r.enabled
             /\ r.id \notin scanOut.before
             /\ scanOut.at >= DateFromISO(r.alarmTime) + 120 * 1000)
            => /\ r.id \notin DOMAIN activeRingingAlarms
               /\ ~Reported(r.id)

\* C18 as stated (a missed alarm stays inert).  A stored record that is
\* not ringing and whose window is over is fired by no later scan, and
\* only the page changes or removes it: the worker's snooze or dismiss
\* never rewrites or deletes a record that was in that state when the
\* user tapped.
C18_MissedStaysInert ==
    /\ MissedNotFired
    /\ lastOp.op \in {"snooze", "dismiss"} => ~lastOp.missed

\* The record r is missed and nothing of it is left on screen or in
\* flight: it is stored and enabled, not ringing, its window is over, no
\* alert of it is shown or about to be shown, no tap on one is being
\* handled.
Inert(r) ==
    /\ r.enabled
    /\ r.id \notin DOMAIN activeRingingAlarms
    /\ now >= DateFromISO(r.alarmTime) + 120 * 1000
    /\ Count(notifications, r.id) = 0
    /\ \A i \in DOMAIN notifQ : notifQ[i].tag # r.id
    /\ \A i \in DOMAIN swQ :
          swQ[i].action = "scan" \/ swQ[i].alarmId # r.id

\* C18 (as the code has it).  A stored record that is not ringing, whose
\* window is over and of which no alert is on screen is fired by no later
\* scan, and it stays in the store as it is until a request of the page
\* (a reconcile or a cancel) changes the store.  While an alert of it is
\* still on screen, a tap on it snoozes or dismisses the record.
C18_MissedInertWithoutAlert ==
    /\ []MissedNotFired
    /\ [][\A r \in store :
             Inert(r) => (r \in store' \/ fgQ' # fgQ)]_vars
    /\ []((lastOp.op \in {"snooze", "dismiss"} /\ lastOp.missed)
            => lastOp.closed)

\* C18 witness: a worker that was stopped before the window of the first
\* record and started after it has scanned; the record, never fired, is
\* stored as it was and no alert of it is on screen.
C18_Witness ==
    /\ scanOut.valid
    /\ FirstRecord \in store
    /\ Inert(FirstRecord)
    /\ FirstRecord.id \notin worker.rang
    /\ activeAlarmAudio = EmptyMap

\* C18 second witness: the worker lost the ringing map while the alert
\* was on screen; the user tapped Snooze after the window, and the record
\* has been rewritten.
C18_WitnessTapped ==
    /\ lastOp.op = "snooze"
    /\ lastOp.missed
    /\ lastOp.before = FirstRecord

(* ========================= claims: the tones =========================== *)

\* The tones of every id but id are in a what they are in b.
OthersAsIn(a, b, id) ==
    /\ DOMAIN a \ {id} = DOMAIN b \ {id}
    /\ \A x \in DOMAIN a \ {id} : a[x] = b[x]

\* C19 (tone per id).  When the page has handled ALARM_RINGING for id X, X
\* has a tone: the one it had, untouched, or else a new one; the tones of
\* the other ids are as they were.  In every reachable state each id has
\* at most one tone sounding, and the Map holds it.
C19_OneTonePerId ==
    /\ \A id \in DOMAIN activeAlarmAudio :
          /\ activeAlarmAudio[id].tones = 1
          /\ activeAlarmAudio[id].held
    /\ (lastOp.op = "message" /\ lastOp.type = "ALARM_RINGING") =>
          /\ lastOp.id \in DOMAIN activeAlarmAudio
          /\ lastOp.id \in DOMAIN lastOp.before
                => activeAlarmAudio = lastOp.before
          /\ OthersAsIn(activeAlarmAudio, lastOp.before, lastOp.id)

\* C19 witness: ALARM_RINGING has come for an id whose tone was playing,
\* while another id's tone plays too.
C19_Witness ==
    /\ lastOp.op = "message"
    /\ lastOp.type = "ALARM_RINGING"
    /\ lastOp.id \in DOMAIN lastOp.before
    /\ Cardinality(DOMAIN activeAlarmAudio) = 2

\* C20 (stop tears down exactly one tone).  When the page has handled
\* ALARM_STOPPED for id X, X has no tone, the tones of the other ids are
\* as they were, and nothing at all has changed when X had no tone.
C20_StopExactlyThatTone ==
    (lastOp.op = "message" /\ lastOp.type = "ALARM_STOPPED") =>
        /\ Tones(activeAlarmAudio, lastOp.id) = 0
        /\ OthersAsIn(activeAlarmAudio, lastOp.before, lastOp.id)
        /\ lastOp.id \notin DOMAIN lastOp.before
              => activeAlarmAudio = lastOp.before

\* C20 witness: ALARM_STOPPED has stopped one of two tones.
C20_Witness ==
    /\ lastOp.op = "message"
    /\ lastOp.type = "ALARM_STOPPED"
    /\ lastOp.id \in DOMAIN lastOp.before
    /\ Cardinality(DOMAIN activeAlarmAudio) = 1

\* C20 second witness: ALARM_STOPPED has come for an id without a tone
\* while another tone plays.
C20_WitnessNoTone ==
    /\ lastOp.op = "message"
    /\ lastOp.type = "ALARM_STOPPED"
    /\ lastOp.id \notin DOMAIN lastOp.before
    /\ activeAlarmAudio # EmptyMap

\* C21 (page teardown).  When the cleanup of App's effect has run, no tone
\* is sounding for any id and the Map of tones is empty, whatever tones
\* were sounding before.
C21_TeardownStopsAll ==
    lastOp.op = "cleanup" =>
        /\ \A id \in AlarmIds : Tones(activeAlarmAudio, id) = 0
        /\ activeAlarmAudio = EmptyMap

\* C21 witness: the cleanup has run while the tones of three ids were
\* sounding.
C21_Witness ==
    /\ lastOp.op = "cleanup"
    /\ Cardinality(HeldIds(lastOp.before)) = 3

(* ==================== claims: permission and failures ================== *)

\* The permission state is determined: the browser will not ask.
Determined(perm) == perm \in {"granted", "denied"}

\* C22 (permission request).  requestNotificationPermission asks the user
\* only while the permission is undetermined, never when it is 'granted'
\* or 'denied'; it returns true exactly when the state it leaves is
\* 'granted'; and in a determined state every further call returns the
\* same answer, asks nothing and leaves the state as it is.
C22_PromptOnlyWhenUndetermined ==
    /\ lastOp.op \in {"toggle", "permission"} =>
          /\ lastOp.prompted <=> ~Determined(lastOp.before)
          /\ lastOp.result <=> permission = "granted"
          /\ Determined(lastOp.before) => permission = lastOp.before
    /\ Determined(permission) =>
          \A answer \in {"granted", "denied", "default"} :
              LET again == requestNotificationPermission(permission, answer)
              IN  /\ ~again.prompted
                  /\ again.permission = permission
                  /\ again.result = (permission = "granted")

\* C22 witness: a toggle was tried with the permission denied; nothing was
\* asked.
C22_Witness ==
    /\ lastOp.op = "toggle"
    /\ lastOp.before = "denied"
    /\ ~lastOp.prompted

\* C22 second witness: the user was asked on mount and allowed.
C22_WitnessAsked ==
    /\ lastOp.op = "permission"
    /\ lastOp.prompted
    /\ lastOp.result
    /\ permission = "granted"

\* C26 (permission denied).  The alarm effect does not look at the
\* permission: a run that completes undisturbed while the permission is
\* not granted leaves one record per desired slot in the store, as it is
\* to; and a toggle tried without the permission leaves the master flag
\* and the individually enabled set as they were and starts no run.
C26_ReconcileIgnoresPermission ==
    /\ (lastOp.op = "reconcile" /\ lastOp.clean /\ permission # "granted")
          => /\ store = lastOp.want
             /\ Cardinality(store) = Cardinality(DesiredSlots)
             /\ \A r \in store : r.enabled
    /\ (lastOp.op = "toggle" /\ permission # "granted")
          => /\ masterAlarmEnabled = lastOp.master
             /\ enabledAlarms = lastOp.enabled
             /\ ~lastOp.result

\* C26 witness: with the permission denied and the master toggle on, a
\* run has stored the two records of the day.
C26_Witness ==
    /\ lastOp.op = "reconcile"
    /\ lastOp.clean
    /\ permission = "denied"
    /\ Cardinality(store) = 2

\* C26 second witness: the master toggle was tried with the permission
\* denied.
C26_WitnessToggle ==
    /\ lastOp.op = "toggle"
    /\ permission = "denied"
    /\ masterAlarmEnabled
    /\ fgQ = <<>>

(* ===================== claims: the store unavailable =================== *)

\* The failed store request left the store and the messages to the worker
\* as it found them, and no error reached its caller.
FailsSoft ==
    /\ ~lastOp.thrown
    /\ store = lastOp.store
    /\ toSw = lastOp.sent

\* C23 (store unavailable), amended.  When the store fails to open,
\* scheduleAlarm, cancelAlarm, cancelAllAlarms and getAllAlarmsFromDB
\* complete without an error reaching the caller, with the store as it was
\* and no message sent to the worker by the time they complete, and
\* getAllAlarmsFromDB returns an empty list; a message the worker gets
\* later for an alarm that was not saved is CHECK_ALARMS from the timeout
\* scheduleAlarm armed all the same, for an alarm more than a second away.
C23_FailsSoftUntilTimeout ==
    /\ lastOp.op = "storeFail" => FailsSoft
    /\ (lastOp.op = "getAll" /\ ~lastOp.opens) =>
          FailsSoft /\ lastOp.alarms = {}
    /\ (lastOp.op = "storeFail" /\ lastOp.timer) =>
          /\ lastOp.kind = "put"
          /\ \E id \in DOMAIN activeAlarms \cap recon.unsaved :
                activeAlarms[id] > now + MinTimerMs
    /\ (lastOp.op = "timer" /\ lastOp.unsaved) =>
          toSw[Len(toSw)] = [type |-> "CHECK_ALARMS"]

\* scheduleAlarm failed to save an alarm and armed its timeout.
C23_Witness ==
    /\ lastOp.op = "storeFail"
    /\ lastOp.kind = "put"
    /\ lastOp.timer
    /\ lastOp.store # {}

\* cancelAllAlarms found the store unavailable while it held records.
C23_WitnessClear ==
    /\ lastOp.op = "storeFail"
    /\ lastOp.kind = "clear"
    /\ lastOp.store # {}

\* cancelAlarm found the store unavailable while it held the record.
C23_WitnessDelete ==
    /\ lastOp.op = "storeFail"
    /\ lastOp.kind = "delete"
    /\ lastOp.store # {}

\* getAllAlarmsFromDB found the store unavailable while it held records.
C23_WitnessGetAll ==
    /\ lastOp.op = "getAll"
    /\ ~lastOp.opens
    /\ lastOp.store # {}

\* C23 as stated (store unavailable).  The operations that find the store
\* unavailable complete without an error, leave the store unchanged and
\* send no message to the worker, then or later: no CHECK_ALARMS comes
\* from a scheduleAlarm that did not save its alarm.
C23_NoMessageEver ==
    /\ lastOp.op = "storeFail" => FailsSoft
    /\ (lastOp.op = "getAll" /\ ~lastOp.opens) =>
          FailsSoft /\ lastOp.alarms = {}
    /\ ~(lastOp.op = "timer" /\ lastOp.unsaved)

\* C24 (scan failure).  When a scan's store open or its read fails, the
\* scan ends there: the ringing map, the store, the alerts and the
\* messages to the page are as they were, the failed scan is gone and no
\* scan has been added, and the 60-second timer is armed as before, due
\* within the next 60 seconds, so that the next tick scans again.
C24_ScanFailureContained ==
    /\ lastOp.op = "scanFail" =>
          /\ activeRingingAlarms = lastOp.ring
          /\ store = lastOp.store
          /\ notifQ = lastOp.alerts
          /\ toClient = lastOp.posted
          /\ Len(swQ) = lastOp.scans - 1
          /\ scanPc = "idle"
          /\ timerDue = lastOp.timerDue
    /\ worker.failedAt >= 0 =>
          /\ worker.alive
          /\ now <= timerDue
          /\ timerDue <= now + ScanPeriodMs

\* After a scan failed, the timer's next scan ran, within 60 seconds of
\* the failure, and started an alarm.
C24_Witness ==
    /\ worker.failedAt >= 0
    /\ scanOut.valid
    /\ scanOut.src = "timer"
    /\ scanOut.at > worker.failedAt
    /\ scanOut.at <= worker.failedAt + ScanPeriodMs
    /\ scanOut.started # {}

\* A scan has failed to open the store while another scan was waiting.
C24_WitnessOpen ==
    /\ lastOp.op = "scanFail"
    /\ lastOp.stage = "open"
    /\ lastOp.store # {}
    /\ swQ # <<>>

\* A scan's read has failed while alarms were ringing.
C24_WitnessRead ==
    /\ lastOp.op = "scanFail"
    /\ lastOp.stage = "read"
    /\ DOMAIN lastOp.ring # {}

(* ===================== claims: malformed slot times ==================== *)

\* The time string is "HH:MM": two fields, an hour and a minute.
IsHHMM(time) ==
    /\ Len(time) = 2
    /\ time[1] \in 0..23
    /\ time[2] \in 0..59

\* The ISO string names an instant.
ValidISO(iso) == iso[1] >= 0 /\ iso[2] \in 0..(DayMs - 1)

\* The record of the slot of the displayed day is in the store.
Stored(slot) ==
    \E r \in store :
        r.id = generateAlarmId(currentDate, slot.time, slot.subject)

C25_WitnessMissing ==
    /\ lastOp.op = "reconcile"
    /\ selectedDayClasses(currentDate, tz)[1].time = <<>>
    /\ store = {}

\* A run has completed for a day whose first slot's time spells no number:
\* only the record of the other slot is stored.
C25_WitnessSkipped ==
    /\ lastOp.op = "reconcile"
    /\ selectedDayClasses(currentDate, tz)[1].time = <<NotNumeric, 0>>
    /\ \A r \in store : r.time = <<11, 0>>
    /\ store # {}

(* ================= claims: handlers that run interleaved =============== *)

\* The messages to the page about id that are still on their way.
SentFor(id) ==
    LET About(m) == m.alarmId = id
    IN  SelectSeq(toClient, About)

\* An alert of id is on screen, or showNotification is on its way.
AlertUp(id) ==
    \/ id \in DOMAIN notifications
    \/ \E i \in DOMAIN notifQ :
          notifQ[i].tag = id /\ notifQ[i].op = "reshow"

\* C27 (dismiss or snooze racing with a scan).  When the delete of a
\* dismiss of X, or the put of a snooze of X, commits right after a scan
\* that had read the store before it has processed what it read, X is not
\* in the ringing map, no alert for X is up, and the last message sent to
\* the page for X is ALARM_STOPPED, not ALARM_RINGING.
C27_RaceEndsStopped ==
    (lastOp.op \in {"dismiss", "snooze"} /\ lastOp.raced) =>
        /\ lastOp.id \notin DOMAIN activeRingingAlarms
        /\ ~AlertUp(lastOp.id)
        /\ SentFor(lastOp.id) # <<>> =>
              SentFor(lastOp.id)[Len(SentFor(lastOp.id))].type
                 = "ALARM_STOPPED"

\* The delete of a dismiss of X has committed after a scan that had read
\* the record: the record is gone, X is in the ringing map, its alert is
\* being shown again and the page was told last that X rings.
C27_Witness ==
    /\ lastOp.op = "dismiss"
    /\ lastOp.raced
    /\ Get(store, lastOp.id) = {}
    /\ lastOp.id \in DOMAIN activeRingingAlarms
    /\ AlertUp(lastOp.id)
    /\ SentFor(lastOp.id) # <<>>
    /\ SentFor(lastOp.id)[Len(SentFor(lastOp.id))].type = "ALARM_RINGING"

\* The put of a snooze of X has committed after such a scan: X is out of
\* the ringing map again, but its alert is being shown again and the page
\* was told last that X rings.
C27_WitnessSnooze ==
    /\ lastOp.op = "snooze"
    /\ lastOp.raced
    /\ lastOp.id \notin DOMAIN activeRingingAlarms
    /\ AlertUp(lastOp.id)
    /\ SentFor(lastOp.id) # <<>>
    /\ SentFor(lastOp.id)[Len(SentFor(lastOp.id))].type = "ALARM_RINGING"

\* A dismiss of X has raced with a scan that did not ring X again.
C27_WitnessHarmless ==
    /\ lastOp.op = "dismiss"
    /\ lastOp.raced
    /\ lastOp.id \notin DOMAIN activeRingingAlarms
    /\ ~AlertUp(lastOp.id)

\* The records the latest run of the alarm effect is to leave in the
\* store: those of alarmsToSchedule for the toggles and the displayed day.
Desired ==
    LET a == alarmsToSchedule(masterAlarmEnabled, enabledAlarms, currentDate,
                              tz)
    IN  {AlarmData(a[i]) : i \in DOMAIN a}

\* C28 (two runs of the alarm effect and a cleanup, interleaved).  When
\* the toggles or the displayed day have changed while a run of the alarm
\* effect was under way, and the runs and the cleanup's cancelAllAlarms
\* have all finished, the store equals the desired set of the latest run.
C28_LatestRunWins ==
    (fgQ = <<>> /\ userSteps > 0 /\ DOMAIN handled = {}) =>
        store = Desired

\* Every request of two runs and a cleanup has completed, the latest run
\* for another day than the first, and the store holds a record of the
\* earlier run's day beside the records of the latest run.
C28_Witness ==
    /\ fgQ = <<>>
    /\ userSteps > 0
    /\ DOMAIN handled = {}
    /\ recon.phase = "done"
    /\ Desired # {}
    /\ Desired \subseteq store
    /\ \E r \in store : r.date # toISOString(currentDate)

\* Two runs and a cleanup have completed in the order in which they were
\* started, and the store is the desired set of the latest run.
C28_WitnessInOrder ==
    /\ fgQ = <<>>
    /\ userSteps > 0
    /\ DOMAIN handled = {}
    /\ lastOp.op = "reconcile"
    /\ ~lastOp.clean
    /\ Desired # {}
    /\ store = Desired

(* ================ claims: the page cancels a ringing alarm ============= *)

\* The record of id has been removed by a request of the page (cancelAlarm
\* or cancelAllAlarms), not put again, and id is in the ringing map.
CancelledWhileRinging(id) ==
    /\ id \in DOMAIN activeRingingAlarms
    /\ id \in recon.cancelled
    /\ Get(store, id) = {}

\* C29 (the page cancels a ringing alarm).  If the page deletes the record
\* of an alarm that is ringing, then eventually no alert of the alarm is
\* on screen and the page plays no tone for it, without the user tapping
\* Dismiss.
C29_CancelStopsRinging ==
    \A id \in AlarmIds :
        CancelledWhileRinging(id)
            ~> (id \notin DOMAIN notifications
                /\ ~HasTone(activeAlarmAudio, id))

\* Why the alarm goes on for good: without a tap on the alert, no step of
\* the page or the worker takes an alert off the screen or ends a tone,
\* however long the clock runs.
C29_StaysUpUnaided ==
    [][\A id \in AlarmIds :
          /\ id \in DOMAIN notifications => id \in DOMAIN notifications'
          /\ HasTone(activeAlarmAudio, id) => HasTone(activeAlarmAudio', id)
      ]_vars

\* A timer scan has run after the page removed the record of a ringing
\* alarm: the alert is on screen and the tone plays.
C29_Witness ==
    /\ scanOut.valid
    /\ scanOut.src = "timer"
    /\ \E id \in AlarmIds :
          /\ CancelledWhileRinging(id)
          /\ id \in DOMAIN notifications
          /\ HasTone(activeAlarmAudio, id)

\* C30 (the ringing map and the store).  In every reachable state every
\* id in the ringing map has an enabled record in the store.
C30_RingingHasRecord ==
    \A id \in DOMAIN activeRingingAlarms :
        \E r \in store : r.id = id /\ r.enabled

\* The page's clear has removed the record of an alarm that rings and no
\* handler has anything left to do: the id is in the ringing map and the
\* store is empty.
C30_Witness ==
    /\ Quiescent
    /\ store = {}
    /\ \E id \in DOMAIN activeRingingAlarms : id \in recon.cancelled

\* A dismiss whose delete ran after a scan had put the id back: the id is
\* in the ringing map without a record.
C30_WitnessDismiss ==
    /\ lastOp.op = "dismiss"
    /\ lastOp.id \in DOMAIN activeRingingAlarms
    /\ Get(store, lastOp.id) = {}

(* ===================== claims: snooze, tap, unmount ==================== *)

\* C31 (snooze never creates a record).  A snooze for an id whose record
\* is no longer in the store leaves the store as it was, the id absent,
\* while its handler has taken the id out of the ringing map and sent
\* ALARM_STOPPED to the page it found.
C31_SnoozeMissKeepsStore ==
    lastOp.op = "snoozeMiss" =>
        /\ store = lastOp.store
        /\ Get(store, lastOp.id) = {}
        /\ lastOp.cleared
        /\ lastOp.stopped

\* The user has snoozed an alarm whose record the page had removed, with
\* the page open and other records in the store.
C31_Witness ==
    /\ lastOp.op = "snoozeMiss"
    /\ clientConnected
    /\ lastOp.id \in recon.cancelled
    /\ lastOp.store # {}

\* C32 (default tap).  A tap on an alert that is neither snooze nor
\* dismiss closes that one alert and focuses or opens the app: the store,
\* the ringing map, the other alerts and the requests under way are as
\* they were and no message goes to the page, so an alarm that rang still
\* rings.
C32_DefaultTapOnlyCloses ==
    [][lastOp'.op = "tap" =>
          /\ store' = store
          /\ activeRingingAlarms' = activeRingingAlarms
          /\ toClient' = toClient
          /\ notifQ' = notifQ
          /\ swQ' = swQ
          /\ snoozeConfirmation' = snoozeConfirmation
          /\ activeAlarmAudio' = activeAlarmAudio
          /\ clientConnected'
          /\ notifications' = CloseClicked(notifications, lastOp'.id)
      ]_vars

\* The user has tapped the alert of an alarm that rings while another
\* alert is up and the page plays the tone: the record is stored, the id is
\* in the ringing map, the tone plays on.
C32_Witness ==
    /\ lastOp.op = "tap"
    /\ lastOp.id \in DOMAIN activeRingingAlarms
    /\ Get(store, lastOp.id) # {}
    /\ lastOp.id \notin DOMAIN notifications
    /\ HasTone(activeAlarmAudio, lastOp.id)

\* The tap has opened the app: ScheduleView's alarm effect is about to
\* run.
C32_WitnessOpened ==
    /\ lastOp.op = "tap"
    /\ lastOp.opened
    /\ fgQ # <<>>
    /\ lastOp.id \in DOMAIN activeRingingAlarms

\* C33 (unmount).  Once ScheduleView is unmounted and the page's store
\* requests have completed, the store holds no record and the page has no
\* timeout armed.
C33_UnmountEmptiesStore ==
    (currentView = "home" /\ fgQ = <<>>) =>
        /\ store = {}
        /\ DOMAIN activeAlarms = {}

\* The section list is shown, nothing is pending anywhere, and the store
\* holds a record.
C33_Witness ==
    /\ currentView = "home"
    /\ Quiescent
    /\ store # {}

\* The section list is shown and a timeout armed by scheduleAlarm has
\* fired on the page.
C33_WitnessFires ==
    /\ currentView = "home"
    /\ lastOp.op = "timer"

\* The unmount came with no request pending: its clear has removed the
\* records.
C33_WitnessInOrder ==
    /\ currentView = "home"
    /\ Quiescent
    /\ store = {}
    /\ recon.cancelled # {}
    /\ recon.phase = "done"

\* handleBack leaves the toggles as they are.
C33_UnmountKeepsToggles ==
    [][lastOp'.op = "back" =>
          /\ masterAlarmEnabled' = masterAlarmEnabled
          /\ enabledAlarms' = enabledAlarms
          /\ store' = store
      ]_vars

(* ------------- claims: disabled records, re-show, timer ------------- *)

\* The ids of the stored records that have enabled = false.
DisabledIds == {a.id : a \in {r \in store : ~r.enabled}}

\* C34 (only enabled records ring).  A stored record with enabled = false
\* is not in the ringing map, has no alert up and none requested, and a
\* scan neither starts it nor re-shows it nor posts ALARM_RINGING for it;
\* and no writer makes one: a record with enabled = false is one the store
\* held from the start, and what a snooze has written has enabled = true.
C34_OnlyEnabledRing ==
    /\ \A id \in DisabledIds :
          /\ id \notin DOMAIN activeRingingAlarms
          /\ id \notin DOMAIN notifications
          /\ \A i \in DOMAIN notifQ : notifQ[i].tag # id
          /\ \A i \in DOMAIN toClient : toClient[i].alarmId # id
          /\ id \notin scanOut.started \cup scanOut.shown \cup scanOut.posted
    /\ \A a \in store :
          ~a.enabled => [a EXCEPT !.enabled = TRUE] \in DayRecords(1, 0)
    /\ lastOp.op = "snooze" =>
          \A a \in Get(store, lastOp.id) : a.enabled

\* A scan has just run with a record of enabled = false in its window and
\* has left it alone.
C34_Witness ==
    /\ scanOut.valid
    /\ \E a \in store :
          /\ ~a.enabled
          /\ InWindow(scanOut.at - DateFromISO(a.alarmTime))
          /\ a.id \notin DOMAIN activeRingingAlarms

\* A scan has started an enabled record while the other record, switched
\* off and not yet due, stays silent.
C34_WitnessOther ==
    /\ scanOut.valid /\ scanOut.started # {}
    /\ DisabledIds # {}

\* A snooze has rewritten the enabled record: it has enabled = true, the
\* other record is as it was.
C34_WitnessSnooze ==
    /\ lastOp.op = "snooze"
    /\ Get(store, lastOp.id) # {}
    /\ DisabledIds # {}

\* The page has put the day's records again: every stored record has
\* enabled = true.
C34_WitnessWritten ==
    /\ store # {}
    /\ \A a \in store : a.enabled
    /\ recon.phase = "done"

\* The ids a scan with the snapshot snap at time t re-asserts: in the
\* ringing map already, their record read, enabled and in its window.
Reasserted(snap, t) ==
    {a.id : a \in {r \in snap :
                     /\ r.id \in DOMAIN activeRingingAlarms
                     /\ r.enabled
                     /\ InWindow(t - DateFromISO(r.alarmTime))}}

\* The ALARM_RINGING messages for id in a channel.
RingingPosts(tc, id) ==
    Cardinality({i \in DOMAIN tc :
                   tc[i] = [type |-> "ALARM_RINGING", alarmId |-> id]})

\* C35 (re-show rate limit).  For an id that is in the ringing map when a
\* scan runs: the scan re-shows its alert only when more than 30 seconds
\* have passed since lastNotificationTime, and then sets it to now; a scan
\* that comes sooner leaves the entry as it is; either way an id the scan
\* re-asserts gets one more ALARM_RINGING to the page, and startTime is
\* never changed.
C35_ReshowRateLimit ==
    [][(scanPc = "read" /\ scanPc' = "idle") =>
          \A id \in DOMAIN activeRingingAlarms :
             LET r == activeRingingAlarms[id]
                 late == now - r.lastNotificationTime > RenotifyMs
                 again == id \in Reasserted(scanSnap, now)
             IN  /\ id \in DOMAIN activeRingingAlarms'
                 /\ activeRingingAlarms'[id].startTime = r.startTime
                 /\ id \notin scanOut'.started
                 /\ id \in scanOut'.shown <=> (again /\ late)
                 /\ id \in scanOut'.posted <=> again
                 /\ activeRingingAlarms'[id] =
                       IF again /\ late
                       THEN [r EXCEPT !.lastNotificationTime = now]
                       ELSE r
                 /\ (again /\ clientConnected) =>
                       RingingPosts(toClient', id)
                           = RingingPosts(toClient, id) + 1
                 /\ Len(notifQ') = Len(notifQ) + Cardinality(scanOut'.shown)
      ]_vars

\* A scan asked for by a message has come within 30 seconds of the last
\* alert of a ringing id: it has posted ALARM_RINGING and has not
\* re-shown the alert; the entry holds the time of the last alert.
C35_Witness ==
    /\ scanOut.valid /\ scanOut.src = "message"
    /\ \E id \in scanOut.posted \ scanOut.shown :
          /\ id \in scanOut.before
          /\ id \in DOMAIN activeRingingAlarms
          /\ scanOut.at - activeRingingAlarms[id].lastNotificationTime
                \in 0 .. RenotifyMs

\* A scan has come exactly 30 seconds after the last alert and has not
\* re-shown it.
C35_WitnessAtLimit ==
    /\ scanOut.valid
    /\ \E id \in scanOut.posted \ scanOut.shown :
          /\ id \in DOMAIN activeRingingAlarms
          /\ scanOut.at - activeRingingAlarms[id].lastNotificationTime
                = RenotifyMs

\* A scan has come later than that: it has re-shown the alert and
\* recorded the time; startTime is the time of the first alert.
C35_WitnessReshown ==
    /\ scanOut.valid
    /\ \E id \in (scanOut.shown \cap scanOut.posted) \ scanOut.started :
          /\ id \in DOMAIN activeRingingAlarms
          /\ activeRingingAlarms[id].lastNotificationTime = scanOut.at
          /\ activeRingingAlarms[id].startTime < scanOut.at

\* C36 (one scan timer).  Whatever the worker's starts, installs and
\* activations: while it runs exactly one interval is armed, the one whose
\* id alarmCheckInterval holds, and none while it is stopped.
C36_OneScanTimer ==
    /\ Cardinality(worker.intervals) <= 1
    /\ worker.alive =>
          /\ worker.alarmCheckInterval # 0
          /\ worker.intervals = {worker.alarmCheckInterval}
    /\ ~worker.alive => worker.intervals = {}

\* The worker has been activated a while after its script armed the
\* interval: the earlier interval was armed when startAlarmChecking ran
\* again, and one interval is armed now, due a minute from now.
C36_Witness ==
    /\ lastOp.op = "activate"
    /\ lastOp.armed # {}
    /\ worker.startedAt < now
    /\ Cardinality(worker.intervals) = 1
    /\ timerDue = now + ScanPeriodMs

\* The same, on a worker that the browser had stopped and started again,
\* after a second activation.
C36_WitnessRestarted ==
    /\ lastOp.op = "activate"
    /\ worker.stops > 0
    /\ worker.events >= 2
    /\ Cardinality(worker.intervals) = 1

====
